---- MODULE Spec2Model ----
(***************************************************************************)
(* Model of the JSON logging layer of proxy/src/logging.rs:                *)
(* JsonLoggingLayer (on_event, on_new_span, on_record, register_callsite), *)
(* the field visitors, EventFormatter::format and the span serializers.    *)
(*                                                                         *)
(* Text (field names, JSON strings, numbers) is a sequence of one-character*)
(* strings, so that formatting and prefix tests are computed.  A JSON      *)
(* object under construction is the sequence of serialize_key and          *)
(* serialize_value calls the serializer has received.                      *)
(***************************************************************************)
EXTENDS Integers, Sequences, FiniteSets, TLC

\* ------------------------------------------------------------------ text

MESSAGE_FIELD == <<"m", "e", "s", "s", "a", "g", "e">>

LogPrefix == <<"l", "o", "g", ".">>

StartsWith(s, p) == Len(s) >= Len(p) /\ SubSeq(s, 1, Len(p)) = p

HexDigits == <<"0", "1", "2", "3", "4", "5", "6", "7", "8", "9", "a", "b", "c", "d", "e", "f">>

RECURSIVE DecChars(_)
\* Display of an unsigned integer: its decimal digits.
DecChars(n) == IF n < 10 THEN <<HexDigits[n + 1]>>
               ELSE DecChars(n \div 10) \o <<HexDigits[(n % 10) + 1]>>

\* {:x} of one byte: lower-case hex without padding.
HexChars(b) == IF b < 16 THEN <<HexDigits[b + 1]>>
               ELSE <<HexDigits[(b \div 16) + 1], HexDigits[(b % 16) + 1]>>

RECURSIVE HexList(_)
HexList(bytes) == IF bytes = <<>> THEN <<>>
                  ELSE IF Len(bytes) = 1 THEN HexChars(bytes[1])
                  ELSE HexChars(bytes[1]) \o <<",", " ">> \o HexList(Tail(bytes))

\* format_args!("{value:x?}") of a byte slice: the Debug list with hex elements.
DebugHex(bytes) == <<"[">> \o HexList(bytes) \o <<"]">>

\* Decimal text of a signed integer value [neg, digits].
U64MaxDigits == <<"1","8","4","4","6","7","4","4","0","7","3","7","0","9","5","5","1","6","1","5">>

I64MaxDigits == <<"9","2","2","3","3","7","2","0","3","6","8","5","4","7","7","5","8","0","7">>

I64MinDigits == <<"9","2","2","3","3","7","2","0","3","6","8","5","4","7","7","5","8","0","8">>

DigitVal(c) == CHOOSE d \in 0..9 : HexDigits[d + 1] = c

RECURSIVE DigitsLeq(_, _)
\* a <= b for digit texts of equal length.
DigitsLeq(a, b) == IF a = <<>> THEN TRUE
                   ELSE IF DigitVal(a[1]) < DigitVal(b[1]) THEN TRUE
                   ELSE IF DigitVal(a[1]) > DigitVal(b[1]) THEN FALSE
                   ELSE DigitsLeq(Tail(a), Tail(b))

MagLeq(a, b) == Len(a) < Len(b) \/ (Len(a) = Len(b) /\ DigitsLeq(a, b))

IsNeg(txt) == txt # <<>> /\ txt[1] = "-"

Magnitude(txt) == IF IsNeg(txt) THEN Tail(txt) ELSE txt

\* u64::try_from(value).is_ok() for a u128 given by its decimal text.
FitsU64(txt) == MagLeq(txt, U64MaxDigits)

\* i64::try_from(value).is_ok() for an i128 given by its decimal text.
FitsI64(txt) == IF IsNeg(txt) THEN MagLeq(Magnitude(txt), I64MinDigits)
                ELSE MagLeq(txt, I64MaxDigits)

\* ------------------------------------------------------------ JSON values

JNum(txt) == [j |-> "num", t |-> txt]

JStr(txt) == [j |-> "str", t |-> txt]

JBool(b) == [j |-> "bool", t |-> IF b THEN <<"t">> ELSE <<"f">>]

JArr(elems) == [j |-> "arr", elems |-> elems]

\* A string the model does not look into (level, target, file, thread name).
JText(s) == [j |-> "text", s |-> s]

\* A JSON object as the serializer wrote it: the calls it received, and
\* whether end() closed it.
JObj(ops, closed) == [j |-> "obj", ops |-> ops, closed |-> closed]

KeyOp(name) == [op |-> "key", k |-> name]


ValOp(v) == [op |-> "value", v |-> v]

\* serialize_entry(k, v) is serialize_key(k) followed by serialize_value(v).
EntryOps(name, v) == <<KeyOp(name), ValOp(v)>>

\* serialize_key of one of the fixed member names of the line.
TopKey(s) == [op |-> "key", top |-> s]

TopEntry(s, v) == <<TopKey(s), ValOp(v)>>

\* ----------------------------------------------------------- field values
\* A typed field value as the tracing framework hands it to a visitor:
\* ty names the record_* method, v is the payload.  For "debug" and "error"
\* the payload is the text the value's Debug / Display implementation writes;
\* a debug value may also log from inside its Debug implementation (logs),
\* make the serializer fail (fails) or panic (panics).

TyNum == {"i64", "u64", "f64"}

IsDebugWith(val, flag) == val.ty = "debug" /\ val[flag]

\* impl Visit for SpanFieldsRecorder: the serde_json::Value stored for a value.
SpanValue(val) ==
    CASE val.ty \in TyNum -> JNum(val.v)
      [] val.ty = "i128" -> IF FitsI64(val.v) THEN JNum(val.v) ELSE JStr(val.v)
      [] val.ty = "u128" -> IF FitsU64(val.v) THEN JNum(val.v) ELSE JStr(val.v)
      [] val.ty = "bool" -> JBool(val.b)
      [] val.ty = "bytes" -> JArr([i \in 1..Len(val.bytes) |-> JNum(DecChars(val.bytes[i]))])
      [] OTHER -> JStr(val.v)

\* What serialize_value(&value) writes for an event field in
\* MessageFieldExtractor and MessageFieldSkipper.
EventValue(val) ==
    CASE val.ty \in TyNum \cup {"i128", "u128"} -> JNum(val.v)
      [] val.ty = "bool" -> JBool(val.b)
      [] val.ty = "bytes" -> JStr(DebugHex(val.bytes))
      [] OTHER -> JStr(val.v)

\* Whether the serializer returns an error for the value.
SerFails(val) == IsDebugWith(val, "fails")

\* The width of SkippedFieldIndices::bits (u64).  The mask is the set of
\* the positions of its set bits.
MaskWidth == 64

\* ------------------------------------------------------------- call sites
\* The static metadata of the call sites of the program under test.  An
\* Option is a sequence of length 0 (None) or 1 (Some).

NameA == <<"a">>

NameB == <<"b">>

NameX == <<"x">>

NameY == <<"y">>

NameZ == <<"z">>

NameLogTarget == <<"l", "o", "g", ".", "t">>

NameSpan == <<"s", "p">>

\* The field count of the call sites that have more fields than the skip
\* mask has bits.
BigFieldCount == MaskWidth + 2

MetaOf(cs) ==
    CASE cs = "ev_dup" ->
           [is_event |-> TRUE, name |-> <<"e">>, level |-> "ERROR", target |-> "proxy",
            module |-> <<"proxy">>, file |-> <<"logging.rs">>, line |-> <<1095>>,
            fields |-> <<MESSAGE_FIELD, NameA, NameA, NameA, MESSAGE_FIELD>>]
      [] cs = "ev_mix" ->
           [is_event |-> TRUE, name |-> <<"e">>, level |-> "INFO", target |-> "svc",
            module |-> <<"proxy::svc">>, file |-> <<"svc.rs">>, line |-> <<>>,
            fields |-> <<MESSAGE_FIELD, NameA, NameLogTarget, NameX, NameB, NameB>>]
      [] cs = "ev_big" ->
           [is_event |-> TRUE, name |-> <<"e">>, level |-> "WARN", target |-> "big",
            module |-> <<>>, file |-> <<>>, line |-> <<>>,
            fields |-> [i \in 1..BigFieldCount |-> IF i <= 2 THEN NameA ELSE NameB]]
      [] cs = "ev_wide" ->
           [is_event |-> TRUE, name |-> <<"e">>, level |-> "WARN", target |-> "wide",
            module |-> <<>>, file |-> <<>>, line |-> <<>>,
            fields |-> [i \in 1..BigFieldCount |-> IF i <= 2 THEN NameA ELSE DecChars(i)]]
      [] cs = "sp_a" ->
           [is_event |-> FALSE, name |-> NameSpan, level |-> "INFO", target |-> "proxy",
            module |-> <<"proxy">>, file |-> <<"logging.rs">>, line |-> <<1093>>,
            fields |-> <<NameX, NameZ>>]
      [] cs = "sp_b" ->
           [is_event |-> FALSE, name |-> NameSpan, level |-> "INFO", target |-> "proxy",
            module |-> <<"proxy">>, file |-> <<"logging.rs">>, line |-> <<1094>>,
            fields |-> <<NameY, NameX, NameX>>]

AllCallsites == {"ev_dup", "ev_mix", "ev_big", "ev_wide", "sp_a", "sp_b"}

\* The table of the metadata, built once.
Metadata == [cs \in AllCallsites |-> MetaOf(cs)]

\* The &'static Metadata of a call site.
Meta(cs) == Metadata[cs]

NumFields(cs) == Len(Meta(cs).fields)

\* field.name() of the field with the (0-based) index i.
FieldName(cs, i) == Meta(cs).fields[i + 1]

\* --------------------------------------------------- SkippedFieldIndices

\* A shift that wraps instead of overflowing.
ShiftWraps(index) == FALSE

\* 1u64.checked_shl(index) is None: push and contains panic
\* ("field index too large").
ShiftOverflows(index) == index >= MaskWidth

\* SkippedFieldIndices::contains, for an index that does not overflow.
Contains(bits, index) == index \in bits

\* Option<&SkippedFieldIndices>::is_some_and(|i| i.contains(index)).
IsSkipped(maskOpt, index) == maskOpt # <<>> /\ Contains(maskOpt[1], index)

\* ----------------------------------------------------------- the visitors
\* event.record(visitor) calls the visitor once per field that has a value,
\* in index order.  Each visitor below is the fold of its record_* methods
\* over the fields; acc.panic is set when a call panics.

\* The least index from i on of a field the event has a value for, or the
\* number of fields when there is none: event.record goes from one field
\* with a value to the next.
NextValue(ev, i) ==
    LET rest == {j \in DOMAIN ev.vals : j >= i}
    IN IF rest = {} THEN NumFields(ev.cs) ELSE CHOOSE j \in rest : \A k \in rest : j <= k

\* MessageFieldExtractor::accept_field; the conjuncts short-circuit, so the
\* mask is consulted only for a field named "message" while state is None.
ExtractorConsultsMask(state, name, maskOpt) ==
    state = "None" /\ name = MESSAGE_FIELD /\ maskOpt # <<>>

\* An extractor that takes every message field, whatever it has taken before.
ExtractorAcceptsEach(state, name, index, maskOpt) ==
    name = MESSAGE_FIELD /\ ~IsSkipped(maskOpt, index)

ExtractorAccepts(state, name, index, maskOpt) ==
    state = "None" /\ name = MESSAGE_FIELD /\ ~IsSkipped(maskOpt, index)

RECURSIVE ExtractMessage(_, _, _, _)
\* impl Visit for MessageFieldExtractor, from field index i on.
ExtractMessage(ev, maskOpt, i, acc) ==
    IF i >= NumFields(ev.cs) \/ acc.panic THEN acc
    ELSE IF i \notin DOMAIN ev.vals THEN ExtractMessage(ev, maskOpt, NextValue(ev, i), acc)
    ELSE LET name == FieldName(ev.cs, i)
             val == ev.vals[i]
         IN IF ExtractorConsultsMask(acc.state, name, maskOpt) /\ ShiftOverflows(i)
            THEN [acc EXCEPT !.panic = TRUE]
            ELSE IF ~ExtractorAccepts(acc.state, name, i, maskOpt)
            THEN ExtractMessage(ev, maskOpt, i + 1, acc)
            ELSE IF IsDebugWith(val, "panics") THEN [acc EXCEPT !.panic = TRUE]
            ELSE IF SerFails(val)
            THEN ExtractMessage(ev, maskOpt, i + 1, [acc EXCEPT !.state = "Err"])
            ELSE ExtractMessage(ev, maskOpt, i + 1,
                     [acc EXCEPT !.state = "Ok",
                                 !.ops = Append(@, ValOp(EventValue(val)))])

\* FieldsPresent::record_debug: the mask is consulted first, for every field.
PresentConsultsMask(name, maskOpt) == maskOpt # <<>>

PresentAccepts(name, index, maskOpt) ==
    ~IsSkipped(maskOpt, index) /\ name # MESSAGE_FIELD /\ ~StartsWith(name, LogPrefix)

RECURSIVE FieldsPresent(_, _, _, _)
\* impl Visit for FieldsPresent, from field index i on; acc.present is .0.
FieldsPresent(ev, maskOpt, i, acc) ==
    IF i >= NumFields(ev.cs) \/ acc.panic THEN acc
    ELSE IF i \notin DOMAIN ev.vals THEN FieldsPresent(ev, maskOpt, NextValue(ev, i), acc)
    ELSE LET name == FieldName(ev.cs, i)
         IN IF PresentConsultsMask(name, maskOpt) /\ ShiftOverflows(i)
            THEN [acc EXCEPT !.panic = TRUE]
            ELSE FieldsPresent(ev, maskOpt, i + 1,
                     [acc EXCEPT !.present = @ \/ PresentAccepts(name, i, maskOpt)])

\* MessageFieldSkipper::accept_field; the mask is consulted last.
SkipperConsultsMask(ok, name, maskOpt) ==
    ok /\ name # MESSAGE_FIELD /\ ~StartsWith(name, LogPrefix) /\ maskOpt # <<>>

SkipperAccepts(ok, name, index, maskOpt) ==
    ok /\ name # MESSAGE_FIELD /\ ~StartsWith(name, LogPrefix)
       /\ ~IsSkipped(maskOpt, index)

\* The serializer calls of MessageFieldSkipper::record_* for an accepted
\* field: serialize_entry(name, value) for every type but the error value,
\* for which record_error calls serialize_value alone.
SkipperOps(name, val) ==
    IF val.ty = "error" THEN <<ValOp(EventValue(val))>>
    ELSE EntryOps(name, EventValue(val))

RECURSIVE SkipMessage(_, _, _, _)
\* impl Visit for MessageFieldSkipper, from field index i on.
SkipMessage(ev, maskOpt, i, acc) ==
    IF i >= NumFields(ev.cs) \/ acc.panic THEN acc
    ELSE IF i \notin DOMAIN ev.vals THEN SkipMessage(ev, maskOpt, NextValue(ev, i), acc)
    ELSE LET name == FieldName(ev.cs, i)
             val == ev.vals[i]
         IN IF SkipperConsultsMask(acc.ok, name, maskOpt) /\ ShiftOverflows(i)
            THEN [acc EXCEPT !.panic = TRUE]
            ELSE IF ~SkipperAccepts(acc.ok, name, i, maskOpt)
            THEN SkipMessage(ev, maskOpt, i + 1, acc)
            ELSE IF IsDebugWith(val, "panics") THEN [acc EXCEPT !.panic = TRUE]
            ELSE IF SerFails(val)
            THEN SkipMessage(ev, maskOpt, i + 1,
                     [acc EXCEPT !.ok = FALSE, !.ops = Append(@, KeyOp(name))])
            ELSE SkipMessage(ev, maskOpt, i + 1,
                     [acc EXCEPT !.ops = @ \o SkipperOps(name, val)])

\* ------------------------------------------------------------ span fields

\* extract_fields of the layer (JsonLoggingLayer::new), in configured order.
ExtractFields == <<NameX, NameY>>

\* The order in which a span's papaya map is iterated; the code leaves it to
\* the hash map, the model fixes one.
IterOrder == <<NameZ, NameY, NameX, NameA, NameB>>

\* ExtractedSpanFields::new.
NewExtract == [slots |-> [i \in 1..Len(ExtractFields) |-> <<>>], touched |-> FALSE]

\* IndexSet::get_full(name): the positions (at most one) of name.
GetFull(names, name) == {i \in 1..Len(names) : names[i] = name}

\* A set that keeps the value a slot already holds.
ExtractSetOnce(ex, name, value) ==
    IF GetFull(ExtractFields, name) = {} THEN ex
    ELSE LET index == CHOOSE i \in GetFull(ExtractFields, name) : TRUE
         IN IF ex.slots[index] # <<>> THEN ex
            ELSE [slots |-> [ex.slots EXCEPT ![index] = <<value>>], touched |-> TRUE]

\* ExtractedSpanFields::set.
ExtractSet(ex, name, value) ==
    IF GetFull(ExtractFields, name) = {} THEN ex
    ELSE LET index == CHOOSE i \in GetFull(ExtractFields, name) : TRUE
         IN [slots |-> [ex.slots EXCEPT ![index] = <<value>>], touched |-> TRUE]

RECURSIVE ExtractOpsReversed(_, _)
\* The populated slots from the last slot to the first.
ExtractOpsReversed(ex, i) ==
    IF i > Len(ExtractFields) THEN <<>>
    ELSE ExtractOpsReversed(ex, i + 1)
         \o (IF ex.slots[i] = <<>> THEN <<>> ELSE EntryOps(ExtractFields[i], ex.slots[i][1]))

\* impl Serialize for ExtractedSpanFields: the populated slots in slot order.
RECURSIVE ExtractOps(_, _)
ExtractOps(ex, i) ==
    IF i > Len(ExtractFields) THEN <<>>
    ELSE (IF ex.slots[i] = <<>> THEN <<>> ELSE EntryOps(ExtractFields[i], ex.slots[i][1]))
         \o ExtractOps(ex, i + 1)

RECURSIVE SpanFieldsOps(_, _, _)
\* impl Serialize for SerializableSpanFields: an entry per stored field, each
\* also offered to the extract buffer.  acc = [ops, extract].
SpanFieldsOps(store, i, acc) ==
    IF i > Len(IterOrder) THEN acc
    ELSE LET name == IterOrder[i]
         IN IF name \notin DOMAIN store THEN SpanFieldsOps(store, i + 1, acc)
            ELSE SpanFieldsOps(store, i + 1,
                     [ops |-> acc.ops \o EntryOps(name, store[name]),
                      extract |-> ExtractSet(acc.extract, name, store[name])])

\* callsite_ids.get(callsite).copied().unwrap_or_default()
CallsiteIdOrDefault(cids, cs) == IF cs \in DOMAIN cids THEN cids[cs] ELSE 0

\* format_args!("{}#{}", span.metadata().name(), cid)
SpanKey(name, cid) == name \o <<"#">> \o DecChars(cid)

RECURSIVE SpansOps(_, _, _, _)
\* impl Serialize for SerializableSpans: the scope from the root (scope[1])
\* to the leaf.  A span without a SpanFields extension (store = <<>>) gets an
\* empty object.  acc = [ops, extract].
SpansOps(scope, cids, i, acc) ==
    IF i > Len(scope) THEN acc
    ELSE LET span == scope[i]
             cid == CallsiteIdOrDefault(cids, span.cs)
             inner == IF span.store = <<>> THEN [ops |-> <<>>, extract |-> acc.extract]
                      ELSE SpanFieldsOps(span.store[1], 1,
                                         [ops |-> <<>>, extract |-> acc.extract])
         IN SpansOps(scope, cids, i + 1,
                [ops |-> acc.ops \o <<KeyOp(SpanKey(Meta(span.cs).name, cid)),
                                      ValOp(JObj(inner.ops, TRUE))>>,
                 extract |-> inner.extract])

\* -------------------------------------------------------- EventFormatter

\* EventFormatter::new: an empty logline_buffer.  A buffer holds the bytes
\* that were in it when format began (kept), the calls the top-level map
\* serializer received since (ops), whether end() closed the object, and the
\* number of newline bytes pushed after it.
EmptyBuffer == [ops |-> <<>>, closed |-> FALSE, nl |-> 0, kept |-> <<>>]

\* The tokio worker thread name that format leaves out.
WorkerThreadName == "tokio-runtime-worker"

\* Lines 575-626 of format: the members after "spans".
TailOps(meta, amb, pid, tid, extract) ==
    (IF pid # 1 THEN TopEntry("process_id", JNum(DecChars(pid))) ELSE <<>>)
    \o TopEntry("thread_id", JNum(DecChars(tid)))
    \o (IF amb.thread_name # <<>> /\ amb.thread_name[1] # ""
           /\ amb.thread_name[1] # WorkerThreadName
        THEN TopEntry("thread_name", JText(amb.thread_name[1])) ELSE <<>>)
    \o (IF amb.task_id # <<>> THEN TopEntry("task_id", JText(amb.task_id[1])) ELSE <<>>)
    \o TopEntry("target", JText(meta.target))
    \o (IF meta.module # <<>> /\ meta.module[1] # meta.target
        THEN TopEntry("module", JText(meta.module[1])) ELSE <<>>)
    \o (IF meta.file # <<>> THEN TopEntry("src", [j |-> "src", file |-> meta.file[1], line |-> meta.line])
        ELSE <<>>)
    \o (IF amb.trace_id # <<>> THEN TopEntry("trace_id", JText(amb.trace_id[1])) ELSE <<>>)
    \o (IF extract.touched
        THEN TopEntry("extract", JObj(ExtractOps(extract, 1), TRUE)) ELSE <<>>)

RECURSIVE EventSets(_, _, _)
\* The extract buffer after a set for every field of the event that has a
\* value, from index i on.
EventSets(ev, i, ex) ==
    IF i >= NumFields(ev.cs) THEN ex
    ELSE IF i \notin DOMAIN ev.vals THEN EventSets(ev, NextValue(ev, i), ex)
    ELSE EventSets(ev, i + 1, ExtractSet(ex, FieldName(ev.cs, i), EventValue(ev.vals[i])))

\* An extract buffer that the fields of the event are offered to as well.
ExtractWithEvent(ev, ex) == EventSets(ev, 0, ex)

\* The extract buffer that format emits (lines 623-626): the one the spans
\* serializer filled; format offers no field of the event to it.
EventExtract(ev, ex) == ex

\* EventFormatter::format on an empty buffer.  res is "ok" (Ok(())), "err"
\* (the serializer returned an error) or "panic"; buf is what the buffer
\* holds when format ends.
FormatLine(now, ev, maskOpt, scope, cids, amb, pid, tid) ==
    LET meta == Meta(ev.cs)
        head == TopEntry("timestamp", [j |-> "time", at |-> now])
                \o TopEntry("level", JText(meta.level))
                \o <<TopKey("message")>>
        mx == ExtractMessage(ev, maskOpt, 0,
                             [ops |-> head, state |-> "None", panic |-> FALSE])
        \* MessageFieldExtractor::into_serializer
        afterMsg == IF mx.state = "None" THEN Append(mx.ops, ValOp(JStr(<<>>)))
                    ELSE mx.ops
        fp == FieldsPresent(ev, maskOpt, 0, [present |-> FALSE, panic |-> FALSE])
        sk == SkipMessage(ev, maskOpt, 0, [ops |-> <<>>, ok |-> TRUE, panic |-> FALSE])
        fieldsOps == <<TopKey("fields"), ValOp(JObj(sk.ops, sk.ok /\ ~sk.panic))>>
        sp == SpansOps(scope, cids, 1, [ops |-> <<>>, extract |-> NewExtract])
        partial(ops) == [ops |-> ops, closed |-> FALSE, nl |-> 0, kept |-> <<>>]
    IN  IF mx.panic THEN [res |-> "panic", buf |-> partial(mx.ops)]
        ELSE IF mx.state = "Err" THEN [res |-> "err", buf |-> partial(mx.ops)]
        ELSE IF fp.panic THEN [res |-> "panic", buf |-> partial(afterMsg)]
        ELSE IF fp.present /\ sk.panic
        THEN [res |-> "panic", buf |-> partial(afterMsg \o fieldsOps)]
        ELSE IF fp.present /\ ~sk.ok
        THEN [res |-> "err", buf |-> partial(afterMsg \o fieldsOps)]
        ELSE [res |-> "ok",
              buf |-> [ops |-> afterMsg
                               \o (IF fp.present THEN fieldsOps ELSE <<>>)
                               \o TopEntry("spans", JObj(sp.ops, TRUE))
                               \o TailOps(meta, amb, pid, tid, EventExtract(ev, sp.extract)),
                       closed |-> TRUE, nl |-> 1, kept |-> <<>>]]

\* The number of events logged from inside Debug implementations while
\* format runs: one per formatting of a debug value that logs.
RECURSIVE NestCount(_, _, _, _)
NestCount(ev, maskOpt, from, state) ==
    LET rest == {j \in DOMAIN ev.vals : j >= from /\ j < NumFields(ev.cs) /\ j < MaskWidth}
    IN IF rest = {} THEN 0
       ELSE LET i == CHOOSE j \in rest : \A k \in rest : j <= k
                name == FieldName(ev.cs, i)
                logs == IsDebugWith(ev.vals[i], "logs")
                asMsg == ExtractorAccepts(state, name, i, maskOpt)
                asField == SkipperAccepts(TRUE, name, i, maskOpt)
            IN (IF logs /\ asMsg THEN 1 ELSE 0) + (IF logs /\ asField THEN 1 ELSE 0)
               + NestCount(ev, maskOpt, i + 1, IF asMsg THEN "Ok" ELSE state)

\* Text written as it is.
Unescaped(txt) == txt

\* Text with its quotes, backslashes and newlines escaped, as the JSON
\* serializer writes the inside of a string and as {:?} writes a str.
RECURSIVE Escaped(_)
Escaped(txt) ==
    LET special == {i \in DOMAIN txt : txt[i] \in {"\n", "\"", "\\"}}
    IN IF special = {} THEN txt
       ELSE LET k == CHOOSE i \in special : \A j \in special : i <= j
            IN SubSeq(txt, 1, k - 1)
               \o <<"\\", IF txt[k] = "\n" THEN "n" ELSE txt[k]>>
               \o Escaped(SubSeq(txt, k + 1, Len(txt)))

BoolChars(b) == IF b THEN <<"t", "r", "u", "e">> ELSE <<"f", "a", "l", "s", "e">>

RECURSIVE DecList(_)
\* {:?} of a byte slice, without its brackets.
DecList(bytes) == IF bytes = <<>> THEN <<>>
                  ELSE IF Len(bytes) = 1 THEN DecChars(bytes[1])
                  ELSE DecChars(bytes[1]) \o <<",", " ">> \o DecList(Tail(bytes))

\* What {:?} writes for a field value: a string in quotes with its control
\* characters escaped, a Debug value as its implementation writes it.
DebugText(val) ==
    CASE val.ty = "str" -> <<"\"">> \o Escaped(val.v) \o <<"\"">>
      [] val.ty = "bool" -> BoolChars(val.b)
      [] val.ty = "bytes" -> <<"[">> \o DecList(val.bytes) \o <<"]">>
      [] OTHER -> val.v

RECURSIVE EventDebug(_, _)
\* format_args!("{event:?}") (line 278): the Debug of the event shows every
\* field that has a value, skipped or not, from index i on.
EventDebug(ev, i) ==
    IF i >= NumFields(ev.cs) THEN <<>>
    ELSE IF i \notin DOMAIN ev.vals THEN EventDebug(ev, NextValue(ev, i))
    ELSE FieldName(ev.cs, i) \o <<":">> \o DebugText(ev.vals[i]) \o <<",">>
         \o EventDebug(ev, i + 1)

\* The number of events logged from inside Debug implementations while the
\* fallback line is built: {event:?} runs the Debug of every value, from
\* index i on.
FallbackNest(ev, i) ==
    Cardinality({j \in DOMAIN ev.vals : /\ j >= i
                                        /\ j < NumFields(ev.cs)
                                        /\ IsDebugWith(ev.vals[j], "logs")})

\* ------------------------------------------------------------- the bytes
\* The bytes of a line, one element per character; a text of the model that
\* is kept whole (a level, a target, a file name) is one element.

Quoted(txt) == <<"\"">> \o Escaped(txt) \o <<"\"">>

RECURSIVE ValueBytes(_), OpsBytes(_, _, _), ElemBytes(_, _)
\* What the serializer writes for a value.
ValueBytes(v) ==
    CASE v.j = "num" -> v.t
      [] v.j = "str" -> Quoted(v.t)
      [] v.j = "bool" -> BoolChars(v.t = <<"t">>)
      [] v.j = "arr" -> <<"[">> \o ElemBytes(v.elems, 1) \o <<"]">>
      [] v.j = "text" -> <<"\"", v.s, "\"">>
      [] v.j = "time" -> <<"\"">> \o DecChars(v.at) \o <<"Z", "\"">>
      [] v.j = "src" -> <<"\"", v.file>>
                        \o (IF v.line = <<>> THEN <<>> ELSE <<":">> \o DecChars(v.line[1]))
                        \o <<"\"">>
      [] v.j = "obj" -> <<"{">> \o OpsBytes(v.ops, 1, TRUE)
                        \o (IF v.closed THEN <<"}">> ELSE <<>>)

\* What SerializeMap writes for the calls it received: serialize_key writes a
\* comma unless it is the first key and the key, serialize_value a colon and
\* the value.
OpsBytes(ops, i, first) ==
    IF i > Len(ops) THEN <<>>
    ELSE IF ops[i].op = "key"
    THEN (IF first THEN <<>> ELSE <<",">>)
         \o (IF "top" \in DOMAIN ops[i] THEN <<"\"", ops[i].top, "\"">> ELSE Quoted(ops[i].k))
         \o OpsBytes(ops, i + 1, FALSE)
    ELSE <<":">> \o ValueBytes(ops[i].v) \o OpsBytes(ops, i + 1, first)

ElemBytes(elems, i) ==
    IF i > Len(elems) THEN <<>>
    ELSE (IF i = 1 THEN <<>> ELSE <<",">>) \o ValueBytes(elems[i]) \o ElemBytes(elems, i + 1)

\* The bytes a buffer holds.
Bytes(buf) ==
    IF buf.ops = <<>> /\ ~buf.closed THEN buf.kept
    ELSE buf.kept \o <<"{">> \o OpsBytes(buf.ops, 1, TRUE)
         \o (IF buf.closed THEN <<"}">> ELSE <<>>)
         \o [i \in 1..buf.nl |-> "\n"]

\* A reset that leaves the buffer as it is.
ResetSkipped(buf) == buf

\* EventFormatter::reset (lines 514-516): logline_buffer.clear().
Reset(buf) == EmptyBuffer

\* The buffer after format has run on it (lines 540, 632): the serializer
\* and the pushed newline append to the bytes the buffer holds.
Appended(buf, line) == [line EXCEPT !.kept = Bytes(buf)]

\* -------------------------------------------------------------- the state

\* The threads of the process.
Threads == {1, 2}

VARIABLES
    skipped_field_indices,  \* JsonLoggingLayer.skipped_field_indices: call site -> mask
    callsite_ids,           \* JsonLoggingLayer.callsite_ids: call site -> CallsiteId
    counter,                \* CallsiteId::next's static COUNTER
    interest,               \* call site -> outcome of its last register_callsite
    scope,                  \* thread -> its current spans, root first: [cs, store,
                            \*   assigned]; assigned is the history of the span:
                            \*   field name -> the value last given for it
    guard,                  \* thread -> REENTRANCY_GUARD
    borrowed,               \* thread -> EVENT_FORMATTER's RefCell is mutably borrowed
    tlbuf,                  \* thread -> EVENT_FORMATTER.logline_buffer
    stack,                  \* thread -> the active on_event calls, outermost first
    sink,                   \* what the writer received: the write_all calls in order
    writer,                 \* the thread holding the writer's lock, or 0
    started,                \* on_event calls made so far
    ended,                  \* thread -> how its last outermost on_event call ended
    clock,                  \* what Clock::now returns
    pid,                    \* std::process::id()
    preserve_order,         \* serde_json is built with its preserve_order feature:
                            \*   a json! object keeps the order its keys were written
                            \*   in; without it the keys are sorted
    registrations,          \* call site -> the register_callsite calls counted for
                            \*   it (counted where a specification follows them)
    registering,            \* thread -> the callsite_id call it is inside of, as
                            \*   <<[cs, pc, id]>>, or <<>>
    visiting                \* thread -> the span stores its format is iterating, as
                            \*   <<[d, i, seen, before]>>, or <<>>

vars == <<skipped_field_indices, callsite_ids, counter, interest, scope, guard,
          borrowed, tlbuf, stack, sink, writer, started, ended, clock, pid,
          preserve_order, registrations, registering, visiting>>

registryVars == <<skipped_field_indices, callsite_ids, counter, interest>>

threadVars == <<guard, borrowed, tlbuf, stack, ended>>

\* The most on_event calls of one behaviour, the deepest span scope of a
\* thread and the latest clock reading.
MaxEvents == 3

MaxScope == 2

MaxClock == 1

\* The most register_callsite calls followed for one call site.
MaxRegistrations == 3

\* gettid() of a thread.
ThreadId(t) == 40 + t

\* The process ids the model runs under.
Pids == {1, 1234}

InitLayer ==
    /\ skipped_field_indices = <<>>
    /\ callsite_ids = <<>>
    /\ counter = 1
    /\ interest = [cs \in AllCallsites |-> "unregistered"]
    /\ scope = [t \in Threads |-> <<>>]
    /\ guard = [t \in Threads |-> FALSE]
    /\ borrowed = [t \in Threads |-> FALSE]
    /\ tlbuf = [t \in Threads |-> EmptyBuffer]
    /\ stack = [t \in Threads |-> <<>>]
    /\ sink = <<>>
    /\ writer = 0
    /\ started = 0
    /\ ended = [t \in Threads |-> "none"]
    /\ clock = 0
    /\ preserve_order \in BOOLEAN
    /\ registrations = [cs \in AllCallsites |-> 0]
    /\ registering = [t \in Threads |-> <<>>]
    /\ visiting = [t \in Threads |-> <<>>]

\* m with key k set to v (papaya insert).
MapPut(m, k, v) == [x \in DOMAIN m \cup {k} |-> IF x = k THEN v ELSE m[x]]

Idle(t) == stack[t] = <<>>

Top(t) == stack[t][Len(stack[t])]

SetTop(t, frame) == [stack EXCEPT ![t] = [@ EXCEPT ![Len(@)] = frame]]

\* ----------------------------------------------------- register_callsite

RECURSIVE SkippedOfLater(_, _, _, _)
\* A loop that keeps the first index of a name and pushes every later one.
SkippedOfLater(cs, i, seen, acc) ==
    IF i >= NumFields(cs) THEN acc
    ELSE LET name == FieldName(cs, i)
         IN IF name \notin DOMAIN seen
            THEN SkippedOfLater(cs, i + 1, MapPut(seen, name, i), acc)
            ELSE SkippedOfLater(cs, i + 1, seen, [acc EXCEPT !.bits = @ \cup {i}])

RECURSIVE SkippedOf(_, _, _, _)
\* The loop of register_callsite over metadata.fields(), from index i on:
\* seen is seen_fields, acc.bits the mask built so far; acc.panic is set when
\* push panics.
SkippedOf(cs, i, seen, acc) ==
    IF i >= NumFields(cs) \/ acc.panic THEN acc
    ELSE LET name == FieldName(cs, i)
         IN IF name \notin DOMAIN seen
            THEN SkippedOf(cs, i + 1, MapPut(seen, name, i), acc)
            ELSE IF ShiftOverflows(seen[name])
            THEN [acc EXCEPT !.panic = TRUE]
            ELSE SkippedOf(cs, i + 1, MapPut(seen, name, i),
                           [acc EXCEPT !.bits = @ \cup {seen[name]}])

\* The outcome of the loop for each call site (it depends on the static
\* metadata alone), computed once.
SkippedTable == [cs \in AllCallsites |->
                    SkippedOf(cs, 0, <<>>, [bits |-> {}, panic |-> FALSE])]

\* An Interest that lets event call sites through only.
InterestOfEvents(cs) == IF Meta(cs).is_event THEN "always" ELSE "never"

\* The Interest register_callsite returns.
InterestOf(cs) == "always"

\* An insert of a fresh id, whatever the map holds.
CallsiteIdAssign(cs) ==
    /\ callsite_ids' = MapPut(callsite_ids, cs, counter)
    /\ counter' = counter + 1

\* JsonLoggingLayer::callsite_id: get_or_insert_with(cs, CallsiteId::next).
CallsiteIdInsert(cs) ==
    IF cs \in DOMAIN callsite_ids THEN UNCHANGED <<callsite_ids, counter>>
    ELSE /\ callsite_ids' = MapPut(callsite_ids, cs, counter)
         /\ counter' = counter + 1

RegisterCallsite(cs) ==
    /\ IF ~Meta(cs).is_event
       THEN /\ CallsiteIdInsert(cs)
            /\ interest' = [interest EXCEPT ![cs] = InterestOf(cs)]
            /\ UNCHANGED skipped_field_indices
       ELSE LET r == SkippedTable[cs]
            IN IF r.panic
               THEN /\ interest' = [interest EXCEPT ![cs] = "panic"]
                    /\ UNCHANGED <<skipped_field_indices, callsite_ids, counter>>
               ELSE /\ skipped_field_indices' =
                          IF r.bits # {} THEN MapPut(skipped_field_indices, cs, r.bits)
                          ELSE skipped_field_indices
                    /\ interest' = [interest EXCEPT ![cs] = InterestOf(cs)]
                    /\ UNCHANGED <<callsite_ids, counter>>
    /\ UNCHANGED <<scope, threadVars, sink, writer, started, clock, pid, preserve_order, registering, visiting>>

\* callsite_id, step by step.  get_or_insert_with of the papaya map is not
\* one atomic step: it looks the key up, calls CallsiteId::next when the key
\* is absent, and inserts the new id unless another thread has inserted one
\* for the key in the meantime, in which case the id it took is dropped.

\* A counter that is read and left as it is.
CounterKept(c) == c

\* What COUNTER.fetch_add(1, Relaxed) leaves in COUNTER; the read and the
\* write are one atomic step.
FetchAdd(c) == c + 1

\* register_callsite of a span call site by thread t calls callsite_id
\* (lines 313-314).
BeginCallsiteId(t, cs) ==
    /\ registering[t] = <<>>
    /\ ~Meta(cs).is_event
    /\ registering' = [registering EXCEPT ![t] = <<[cs |-> cs, pc |-> "get", id |-> 0]>>]
    /\ UNCHANGED <<registryVars, scope, threadVars, sink, writer, started, clock, pid,
                   preserve_order, visiting>>

\* The lookup of get_or_insert_with: an id that is there is returned, and
\* register_callsite returns.
GetCallsiteId(t) ==
    /\ registering[t] # <<>>
    /\ registering[t][1].pc = "get"
    /\ LET cs == registering[t][1].cs
       IN IF cs \in DOMAIN callsite_ids
          THEN /\ registering' = [registering EXCEPT ![t] = <<>>]
               /\ interest' = [interest EXCEPT ![cs] = InterestOf(cs)]
          ELSE /\ registering' = [registering EXCEPT ![t] = <<[@[1] EXCEPT !.pc = "next"]>>]
               /\ UNCHANGED interest
    /\ UNCHANGED <<skipped_field_indices, callsite_ids, counter, scope, threadVars, sink,
                   writer, started, clock, pid, preserve_order, registrations, visiting>>

\* CallsiteId::next (lines 353-357).
NextCallsiteId(t) ==
    /\ registering[t] # <<>>
    /\ registering[t][1].pc = "next"
    /\ registering' = [registering EXCEPT
                          ![t] = <<[@[1] EXCEPT !.pc = "insert", !.id = counter]>>]
    /\ counter' = FetchAdd(counter)
    /\ UNCHANGED <<skipped_field_indices, callsite_ids, interest, scope, threadVars, sink,
                   writer, started, clock, pid, preserve_order, registrations, visiting>>

\* The insert of get_or_insert_with: the id is stored unless the call site
\* has got one since the lookup; register_callsite returns.
InsertCallsiteId(t) ==
    /\ registering[t] # <<>>
    /\ registering[t][1].pc = "insert"
    /\ LET cs == registering[t][1].cs
       IN /\ callsite_ids' = IF cs \in DOMAIN callsite_ids THEN callsite_ids
                             ELSE MapPut(callsite_ids, cs, registering[t][1].id)
          /\ interest' = [interest EXCEPT ![cs] = InterestOf(cs)]
    /\ registering' = [registering EXCEPT ![t] = <<>>]
    /\ UNCHANGED <<skipped_field_indices, counter, scope, threadVars, sink, writer,
                   started, clock, pid, preserve_order, registrations, visiting>>

\* ------------------------------------------------ on_new_span, on_record

\* An insert that keeps the value the map already holds for the name.
StoreInsertIfAbsent(store, name, val) ==
    IF name \in DOMAIN store THEN store ELSE MapPut(store, name, SpanValue(val))

\* SpanFieldsRecorder's insert of one recorded value into the span's map.
StoreInsert(store, name, val) == MapPut(store, name, SpanValue(val))

RECURSIVE RecordFields(_, _, _, _)
\* SpanFields::record_fields: the recorder visits the fields that have a
\* value in index order, from index i on.
RecordFields(store, cs, vals, i) ==
    IF i >= NumFields(cs) THEN store
    ELSE IF i \notin DOMAIN vals THEN RecordFields(store, cs, vals, i + 1)
    ELSE RecordFields(StoreInsert(store, FieldName(cs, i), vals[i]), cs, vals, i + 1)

\* The last value a call gives for each of the names it gives a value for,
\* laid over the history so far.
Assigned(hist, cs, vals) ==
    LET named == {FieldName(cs, i) : i \in DOMAIN vals}
        last(n) == CHOOSE i \in DOMAIN vals :
                      /\ FieldName(cs, i) = n
                      /\ \A j \in DOMAIN vals : FieldName(cs, j) = n => j <= i
    IN [n \in DOMAIN hist \cup named |-> IF n \in named THEN vals[last(n)] ELSE hist[n]]

\* on_new_span for a span of call site cs that thread t creates and enters:
\* a fresh SpanFields, filled from the attributes, becomes its extension.
NewSpan(t, cs, attrs) ==
    /\ Idle(t)
    /\ ~Meta(cs).is_event
    /\ Len(scope[t]) < MaxScope
    /\ scope' = [scope EXCEPT ![t] =
                    Append(@, [cs |-> cs, store |-> <<RecordFields(<<>>, cs, attrs, 0)>>,
                               assigned |-> Assigned(<<>>, cs, attrs)])]
    /\ UNCHANGED <<registryVars, threadVars, sink, writer, started, clock, pid, preserve_order, registrations, registering, visiting>>

\* An on_record that gives a span without a SpanFields extension one.
RecordInstalling(storeOpt, cs, vals) ==
    <<RecordFields(IF storeOpt = <<>> THEN <<>> ELSE storeOpt[1], cs, vals, 0)>>

\* Lines 303-306: the values go into the SpanFields extension of the span
\* if it has one (storeOpt is Some), and nowhere if it has none.
RecordInto(storeOpt, cs, vals) ==
    IF storeOpt = <<>> THEN <<>>
    ELSE <<RecordFields(storeOpt[1], cs, vals, 0)>>

\* on_record by thread t for the d-th span of thread o's scope.  assigned
\* follows the calls made, whether or not the span has a store.
Record(t, o, d, vals) ==
    /\ Idle(t)
    /\ d \in 1..Len(scope[o])
    /\ LET span == scope[o][d]
       IN scope' = [scope EXCEPT ![o][d] =
                       [span EXCEPT
                           !.store = RecordInto(span.store, span.cs, vals),
                           !.assigned = Assigned(span.assigned, span.cs, vals)]]
    /\ UNCHANGED <<registryVars, threadVars, sink, writer, started, clock, pid, preserve_order, registrations, registering, visiting>>

\* Thread t creates and enters a span of call site cs for which the layer's
\* on_new_span is not called (the span was created before the layer saw
\* spans): it has no SpanFields extension.
NewSpanUnseen(t, cs) ==
    /\ Idle(t)
    /\ ~Meta(cs).is_event
    /\ Len(scope[t]) < MaxScope
    /\ scope' = [scope EXCEPT ![t] = Append(@, [cs |-> cs, store |-> <<>>, assigned |-> <<>>])]
    /\ UNCHANGED <<registryVars, threadVars, sink, writer, started, clock, pid, preserve_order, registrations, registering, visiting>>

\* Thread t leaves its innermost span, which closes.
ExitSpan(t) ==
    /\ Idle(t)
    /\ scope[t] # <<>>
    /\ scope' = [scope EXCEPT ![t] = SubSeq(@, 1, Len(@) - 1)]
    /\ UNCHANGED <<registryVars, threadVars, sink, writer, started, clock, pid, preserve_order, registrations, registering, visiting>>

\* ---------------------------------------------------------------- on_event
\* A frame is one on_event call in progress.  pc: "format" (inside format),
\* "write" (about to make_writer), "writing" (holds the writer, inside
\* write_all), "fallback" / "fbwriting" (the same for the fallback line),
\* "ret" (about to return), "panicked" (a panic is unwinding through it).

MaskOf(cs) == IF cs \in DOMAIN skipped_field_indices
              THEN <<skipped_field_indices[cs]>> ELSE <<>>

\* Whether a new on_event may start on thread t: from the application when no
\* call is active, from a Debug implementation the active format is running,
\* or from the panic hook of a panic that has not unwound yet.
FromDebug(t) == ~Idle(t) /\ Top(t).pc \in {"format", "fallback"} /\ Top(t).nest > 0

FromHook(t) == ~Idle(t) /\ Top(t).pc = "panicked" /\ Top(t).hook

RECURSIVE SumNest(_)
SumNest(frames) == IF frames = <<>> THEN 0
                   ELSE frames[1].nest + frames[1].later + SumNest(Tail(frames))

RECURSIVE PendingOf(_)
PendingOf(ts) == IF ts = {} THEN 0
                 ELSE LET t == CHOOSE x \in ts : TRUE
                      IN SumNest(stack[t]) + PendingOf(ts \ {t})

\* The on_event calls that the Debug implementations of the active formats
\* are still going to make.
Pending == PendingOf(Threads)

\* A guard that is never seen set.
EnteredNever(t) == FALSE

\* A guard that is seen set by the first nested call only.
EnteredOutermost(t) == guard[t] /\ Len(stack[t]) <= 1

\* entered.get() of REENTRANCY_GUARD.with (line 241).
Entered(t) == guard[t]

\* Lines 238-257: read the clock, test REENTRANCY_GUARD, and either build a
\* fresh EventFormatter (entered) or set the guard, borrow the thread-local
\* formatter and reset it.
OnEvent(t, ev, amb) ==
    /\ Idle(t) \/ FromDebug(t) \/ FromHook(t)
    /\ started < MaxEvents
    /\ LET nest == NestCount(ev, MaskOf(ev.cs), 0, "None")
           later == FallbackNest(ev, 0)
           cost == (IF FromDebug(t) THEN 0 ELSE 1) + nest + later
           frame == [id |-> started + 1, ev |-> ev, amb |-> amb, now |-> clock,
                     nested |-> Entered(t), pc |-> "format", buf |-> EmptyBuffer,
                     mask |-> MaskOf(ev.cs),
                     nest |-> nest,
                     later |-> later,
                     hook |-> FALSE, res |-> "none", wrote |-> 0, tries |-> 0,
                     wfail |-> FALSE, sent |-> 0]
           below == IF Idle(t) THEN <<>>
                    ELSE IF FromDebug(t)
                    THEN SubSeq(stack[t], 1, Len(stack[t]) - 1)
                         \o <<[Top(t) EXCEPT !.nest = @ - 1]>>
                    ELSE SubSeq(stack[t], 1, Len(stack[t]) - 1)
                         \o <<[Top(t) EXCEPT !.hook = FALSE]>>
       IN /\ started + Pending + cost <= MaxEvents
          /\ started' = started + 1
          /\ IF Entered(t)
             THEN /\ stack' = [stack EXCEPT ![t] = Append(below, frame)]
                  /\ UNCHANGED <<guard, borrowed, tlbuf>>
             ELSE /\ guard' = [guard EXCEPT ![t] = TRUE]
                  /\ IF borrowed[t]
                     THEN \* with_borrow_mut panics: already borrowed
                          /\ stack' = [stack EXCEPT ![t] =
                                          Append(below, [frame EXCEPT !.pc = "panicked",
                                                                      !.res = "borrow"])]
                          /\ UNCHANGED <<borrowed, tlbuf>>
                     ELSE /\ stack' = [stack EXCEPT ![t] = Append(below, frame)]
                          /\ borrowed' = [borrowed EXCEPT ![t] = TRUE]
                          /\ tlbuf' = [tlbuf EXCEPT ![t] = Reset(@)]
    /\ UNCHANGED <<registryVars, scope, sink, writer, ended, clock, pid, preserve_order, registrations, registering, visiting>>

\* The end of a closure without the deferred reset: the borrow is dropped,
\* the flag stays.
LeaveGuardFlagKept(t, frame) ==
    IF frame.nested THEN UNCHANGED <<guard, borrowed>>
    ELSE /\ UNCHANGED guard
         /\ borrowed' = [borrowed EXCEPT ![t] = FALSE]

\* The end of a closure that resets the flag and drops the borrow in every
\* call, nested or not.
LeaveGuardEach(t, frame) ==
    /\ guard' = [guard EXCEPT ![t] = FALSE]
    /\ borrowed' = [borrowed EXCEPT ![t] = FALSE]

\* The closure given to REENTRANCY_GUARD.with ends on thread t: the deferred
\* entered.set(false) runs and the RefMut of the formatter is dropped, both
\* only in the call that set the guard.
LeaveGuard(t, frame) ==
    IF frame.nested THEN UNCHANGED <<guard, borrowed>>
    ELSE /\ guard' = [guard EXCEPT ![t] = FALSE]
         /\ borrowed' = [borrowed EXCEPT ![t] = FALSE]

\* The buffer the frame formats into: the thread-local one, or its own.
BufferOf(t, frame) == IF frame.nested THEN frame.buf ELSE tlbuf[t]

\* The innermost call of thread t is inside format, and no Debug
\* implementation of its event is still going to log.
Formatting(t) == ~Idle(t) /\ Top(t).pc = "format" /\ Top(t).nest = 0

\* A format error that is taken for success.
AfterFormatUnchecked(res) ==
    CASE res \in {"ok", "err"} -> "write"
      [] OTHER -> "panicked"

\* The `?` after formatter.format(..) (lines 250, 265): an error leaves the
\* closure, which skips the write; a panic unwinds.
AfterFormat(res) ==
    CASE res = "ok" -> "write"
      [] res = "err" -> "fallback"
      [] OTHER -> "panicked"

\* formatter.format(...) runs to its end (lines 243-250, 258-265).
Format(t) ==
    /\ Formatting(t)
    /\ LET f == Top(t)
           r == FormatLine(f.now, f.ev, f.mask, scope[t], callsite_ids, f.amb, pid,
                           ThreadId(t))
           g == [f EXCEPT !.res = r.res,
                          !.buf = IF f.nested THEN Appended(@, r.buf) ELSE @,
                          !.hook = (r.res = "panic"),
                          !.nest = IF r.res = "err" THEN f.later ELSE 0,
                          !.later = IF r.res = "ok" THEN f.later ELSE 0,
                          !.pc = AfterFormat(r.res)]
       IN /\ stack' = SetTop(t, g)
          /\ tlbuf' = IF f.nested THEN tlbuf ELSE [tlbuf EXCEPT ![t] = Appended(@, r.buf)]
          /\ IF r.res = "err" THEN LeaveGuard(t, f) ELSE UNCHANGED <<guard, borrowed>>
    /\ UNCHANGED <<registryVars, scope, sink, writer, started, ended, clock, pid, preserve_order, registrations, registering, visiting>>

\* format, with the iteration of the span stores step by step.  The spans
\* serializer takes span.extensions() (a read lock) of one span after the
\* other and iterates the pinned papaya map of the span entry by entry; an
\* entry is read whole, as it is when the iterator comes to it.

\* A lock on the extensions of a span that one holder has for itself.
ExtensionsExclusive(o, d) ==
    IF visiting[o] = <<>> THEN TRUE
    ELSE IF visiting[o][1].done THEN TRUE
    ELSE visiting[o][1].d # d

\* span.extensions() (lines 303, 971): a read lock, which is granted while
\* other threads hold read locks of the same span.
ExtensionsShared(o, d) == TRUE

\* serialize_entry("spans", &spans) begins (line 572): nothing is read yet.
\* before keeps the scope as it is at this moment.
BeginVisit(t) ==
    /\ Formatting(t)
    /\ IF visiting[t] = <<>> THEN TRUE ELSE visiting[t][1].done
    /\ visiting' = [visiting EXCEPT ![t] =
                       <<[d |-> 1, i |-> 1, done |-> FALSE,
                          seen |-> [k \in 1..Len(scope[t]) |-> <<>>],
                          before |-> scope[t]]>>]
    /\ UNCHANGED <<registryVars, scope, threadVars, sink, writer, started, clock, pid,
                   preserve_order, registrations, registering>>

\* The iterator of line 973 comes to the next entry of the span it is in, or
\* to the end of the span's map.
VisitEntry(t) ==
    /\ visiting[t] # <<>>
    /\ ~visiting[t][1].done
    /\ LET v == visiting[t][1]
       IN /\ v.d <= Len(scope[t])
          /\ ExtensionsShared(t, v.d)
          /\ visiting' = [visiting EXCEPT ![t] =
                <<IF v.i > Len(IterOrder) THEN [v EXCEPT !.d = @ + 1, !.i = 1]
                  ELSE LET name == IterOrder[v.i]
                           span == scope[t][v.d]
                       IN IF span.store # <<>> /\ name \in DOMAIN span.store[1]
                          THEN [v EXCEPT !.i = @ + 1,
                                         !.seen[v.d] = MapPut(@, name, span.store[1][name])]
                          ELSE [v EXCEPT !.i = @ + 1]>>]
    /\ UNCHANGED <<registryVars, scope, threadVars, sink, writer, started, clock, pid,
                   preserve_order, registrations, registering>>

\* The scope as the iteration saw it: each span with the entries read.
Visited(t) ==
    [k \in 1..Len(scope[t]) |->
        [scope[t][k] EXCEPT !.store = IF @ = <<>> THEN @ ELSE <<visiting[t][1].seen[k]>>]]

\* format runs to its end (lines 243-250, 258-265) with what the iteration
\* of the span stores has read.
FormatVisited(t) ==
    /\ Formatting(t)
    /\ visiting[t] # <<>>
    /\ ~visiting[t][1].done
    /\ visiting[t][1].d > Len(scope[t])
    /\ LET f == Top(t)
           r == FormatLine(f.now, f.ev, f.mask, Visited(t), callsite_ids, f.amb, pid,
                           ThreadId(t))
           g == [f EXCEPT !.res = r.res,
                          !.buf = IF f.nested THEN Appended(@, r.buf) ELSE @,
                          !.hook = (r.res = "panic"),
                          !.nest = IF r.res = "err" THEN f.later ELSE 0,
                          !.later = IF r.res = "ok" THEN f.later ELSE 0,
                          !.pc = AfterFormat(r.res)]
       IN /\ stack' = SetTop(t, g)
          /\ tlbuf' = IF f.nested THEN tlbuf ELSE [tlbuf EXCEPT ![t] = Appended(@, r.buf)]
          /\ IF r.res = "err" THEN LeaveGuard(t, f) ELSE UNCHANGED <<guard, borrowed>>
    /\ visiting' = [visiting EXCEPT ![t] = <<[@[1] EXCEPT !.done = TRUE]>>]
    /\ UNCHANGED <<registryVars, scope, sink, writer, started, ended, clock, pid,
                   preserve_order, registrations, registering>>

\* A writer that hands itself out without a lock.
Unlocked == TRUE

\* StderrWriter::make_writer is self.stderr.lock(): it waits until no thread
\* holds the lock of stderr.
WriterFree == writer = 0

\* self.writer.make_writer(): take the writer's lock (lines 251, 266, 282).
AcquireWriter(t) ==
    /\ ~Idle(t)
    /\ Top(t).pc \in {"write", "fallback"}
    /\ Top(t).nest = 0
    /\ WriterFree
    /\ writer' = t
    /\ stack' = SetTop(t, [Top(t) EXCEPT
                              !.pc = IF @ = "write" THEN "writing" ELSE "fbwriting"])
    /\ UNCHANGED <<registryVars, scope, guard, borrowed, tlbuf, sink, started, ended,
                   clock, pid, preserve_order, registrations, registering, visiting>>

\* What one write_all call leaves in the sink: the line, with the thread and
\* the call that wrote it and the calls of the thread that this call was made
\* inside of (from a Debug implementation or the panic hook).  write_all
\* loops over write, which may take a part of the bytes only: part is "all"
\* when the bytes went out in one write, "tail" for the rest of a line whose
\* "head" went out before.
Written(t, frame, buf) ==
    [by |-> t, id |-> frame.id, line |-> buf,
     under |-> {stack[t][k].id : k \in 1..(Len(stack[t]) - 1)},
     part |-> IF frame.sent = 0 THEN "all" ELSE "tail"]

\* A writer that puts what it is given in front of what it holds.
WritePrepended(out, w) == <<w>> \o out

\* write_all on the writer: the bytes follow those written before.
WriteAppended(out, w) == Append(out, w)

\* A write result that is dropped.
AfterWriteDropped(ok) == "ret"

\* Line 272: an Err result of the closure leads into the fallback, an Ok
\* result to the end of on_event.
AfterWrite(ok) == IF ok THEN "ret" ELSE "fallback"

\* write_all(formatter.buffer()) returns (ok or an io error), the writer is
\* dropped and the closure ends (lines 251, 266).
WriteAll(t, ok) ==
    /\ ~Idle(t)
    /\ Top(t).pc = "writing"
    /\ LET f == Top(t)
       IN /\ sink' = IF ok THEN WriteAppended(sink, Written(t, f, BufferOf(t, f))) ELSE sink
          /\ stack' = SetTop(t, [f EXCEPT !.pc = AfterWrite(ok),
                                          !.res = IF ok THEN "ok" ELSE "err",
                                          !.wfail = ~ok,
                                          !.nest = IF ok THEN 0 ELSE f.later,
                                          !.later = 0,
                                          !.sent = 0,
                                          !.tries = @ + 1,
                                          !.wrote = IF ok THEN @ + 1 ELSE @])
          /\ LeaveGuard(t, f)
    /\ writer' = 0
    /\ UNCHANGED <<registryVars, scope, tlbuf, started, ended, clock, pid, preserve_order, registrations, registering, visiting>>

\* The fallback line of on_event (lines 272-284): serde_json::json! of four
\* members, and a pushed newline.  json! builds a serde_json Map, whose key
\* order depends on how serde_json is built.
FallbackLine(now, ev) ==
    LET timestamp == TopEntry("timestamp", [j |-> "time", at |-> now])
        level == TopEntry("level", JText("ERROR"))
        message == TopEntry("message", JText("cannot log event"))
        fields == TopEntry("fields", JObj(EntryOps(<<"e", "v", "e", "n", "t">>,
                                                   JStr(EventDebug(ev, 0))), TRUE))
    IN [ops |-> IF preserve_order THEN timestamp \o level \o message \o fields
                ELSE fields \o level \o message \o timestamp,
        closed |-> TRUE, nl |-> 1, kept |-> <<>>]

\* Inside write_all (lines 251, 266, 282): a write takes the first bytes of
\* the line, and write_all goes on with the rest.
WriteSome(t) ==
    /\ ~Idle(t)
    /\ Top(t).pc \in {"writing", "fbwriting"}
    /\ Top(t).sent = 0
    /\ LET f == Top(t)
           buf == IF f.pc = "writing" THEN BufferOf(t, f) ELSE FallbackLine(f.now, f.ev)
       IN /\ sink' = WriteAppended(sink, [Written(t, f, buf) EXCEPT !.part = "head"])
          /\ stack' = SetTop(t, [f EXCEPT !.sent = 1])
    /\ UNCHANGED <<registryVars, scope, guard, borrowed, tlbuf, writer, started, ended,
                   clock, pid, preserve_order, registrations, registering, visiting>>

\* The fallback of lines 272-284: the simpler line is written, and the
\* result of that write is discarded (.ok()).
FallbackWrite(t, ok) ==
    /\ ~Idle(t)
    /\ Top(t).pc = "fbwriting"
    /\ LET f == Top(t)
       IN /\ sink' = IF ok THEN WriteAppended(sink, Written(t, f, FallbackLine(f.now, f.ev)))
                     ELSE sink
          /\ stack' = SetTop(t, [f EXCEPT !.pc = "ret", !.sent = 0, !.tries = @ + 1,
                                          !.wrote = IF ok THEN @ + 1 ELSE @])
    /\ writer' = 0
    /\ UNCHANGED <<registryVars, scope, guard, borrowed, tlbuf, started, ended, clock,
                   pid, preserve_order, registrations, registering, visiting>>

\* on_event returns.
Return(t) ==
    /\ ~Idle(t)
    /\ Top(t).pc = "ret"
    /\ stack' = [stack EXCEPT ![t] = SubSeq(@, 1, Len(@) - 1)]
    /\ ended' = IF Len(stack[t]) = 1 THEN [ended EXCEPT ![t] = "returned"] ELSE ended
    /\ UNCHANGED <<registryVars, scope, guard, borrowed, tlbuf, sink, writer, started,
                   clock, pid, preserve_order, registrations, registering, visiting>>

\* A panic unwinds through the innermost on_event call of thread t: its
\* deferred reset runs and its borrow is dropped, and the panic goes on into
\* the call that was formatting when this one was made.
Unwind(t) ==
    /\ ~Idle(t)
    /\ Top(t).pc = "panicked"
    /\ LET f == Top(t)
           rest == SubSeq(stack[t], 1, Len(stack[t]) - 1)
       IN /\ stack' = [stack EXCEPT ![t] =
                          IF rest = <<>> THEN <<>>
                          ELSE SubSeq(rest, 1, Len(rest) - 1)
                               \o <<[rest[Len(rest)] EXCEPT !.pc = "panicked",
                                                            !.res = "panic",
                                                            !.nest = 0,
                                                            !.later = 0,
                                                            !.hook = FALSE]>>]
          /\ ended' = IF rest = <<>> THEN [ended EXCEPT ![t] = "unwound"] ELSE ended
          /\ IF f.nested THEN UNCHANGED <<guard, borrowed>>
             ELSE IF f.res = "borrow"
             THEN guard' = [guard EXCEPT ![t] = FALSE] /\ UNCHANGED borrowed
             ELSE LeaveGuard(t, f)
    /\ UNCHANGED <<registryVars, scope, tlbuf, sink, writer, started, clock, pid, preserve_order, registrations, registering, visiting>>

\* The clock advances.
Tick ==
    /\ clock < MaxClock
    /\ clock' = clock + 1
    /\ UNCHANGED <<registryVars, scope, threadVars, sink, writer, started, pid, preserve_order, registrations, registering, visiting>>

\* ------------------------------------------------------------- the inputs

VI(n) == [ty |-> "i64", v |-> DecChars(n)]

VStr(txt) == [ty |-> "str", v |-> txt]

VErr(txt) == [ty |-> "error", v |-> txt]

VBool(b) == [ty |-> "bool", b |-> b]

VBytes(bytes) == [ty |-> "bytes", bytes |-> bytes]

VU128(txt) == [ty |-> "u128", v |-> txt]

VI128(txt) == [ty |-> "i128", v |-> txt]

VDbg(txt, how) == [ty |-> "debug", v |-> txt, logs |-> how = "logs",
                   fails |-> how = "fails", panics |-> how = "panics"]

\* u128::MAX
U128Max == <<"3","4","0","2","8","2","3","6","6","9","2","0","9","3","8","4","6","3","4",
             "6","3","3","7","4","6","0","7","4","3","1","7","6","8","2","1","1","4","5","5">>

Absent == [ty |-> "absent"]

\* The values of a call: choice[i] is the value given for field index i - 1,
\* or Absent when the call gives none.
Present(choice) == [i \in {j - 1 : j \in {k \in DOMAIN choice : choice[k] # Absent}}
                      |-> choice[i + 1]]

MainAmbient == [thread_name |-> <<"main">>, task_id |-> <<"7">>, trace_id |-> <<"4bf9">>]

Ambients ==
    {[thread_name |-> <<>>, task_id |-> <<>>, trace_id |-> <<>>],
     MainAmbient,
     [thread_name |-> <<WorkerThreadName>>, task_id |-> <<"8">>, trace_id |-> <<>>]}

\* Events of the call site of tests::test_field_collection:
\* error!(a = .., a = .., a = .., message = .., "..").
DupEvents ==
    {[cs |-> "ev_dup", vals |-> Present(<<v0, VI(1), v2, v3, v4>>)] :
        v0 \in {VStr(<<"m", "0">>)},
        v2 \in {Absent, VI(2)},
        v3 \in {Absent, VI(3), VErr(<<"e", "r">>), VDbg(<<"d">>, "fails")},
        v4 \in {Absent, VStr(<<"m", "1">>), VDbg(<<"d">>, "fails")}}

\* Events of a call site with a log.-prefixed field and one repeated name.
MixEvents ==
    {[cs |-> "ev_mix", vals |-> Present(<<v0, v1, v2, v3, Absent, v5>>)] :
        v0 \in {Absent, VStr(<<"g", "o">>), VBytes(<<1, 171>>), VU128(U128Max)},
        v1 \in {Absent, VI(1), VErr(<<"e", "r">>), VBytes(<<10, 255>>)},
        v2 \in {Absent, VStr(<<"t">>)},
        v3 \in {Absent, VBool(TRUE)},
        v5 \in {Absent, VU128(U128Max), VI128(<<"-", "7">>)}}

FieldEvents == DupEvents \cup MixEvents

\* Span attributes and recorded values: info_span!("sp", x = .., z = ..) and
\* info_span!("sp", y = .., x = .., x = ..), as in test_field_collection.
SpanAttrs(cs) ==
    IF cs = "sp_a"
    THEN {Present(<<vx, vz>>) : vx \in {Absent, VI(24)}, vz \in {Absent, VI(5)}}
    ELSE {Present(<<vy, VI(41), vx>>) : vy \in {Absent, VBool(TRUE)},
                                        vx \in {Absent, VI(42)}}

RecordValues(cs) ==
    IF cs = "sp_a" THEN {Present(<<VI(7), Absent>>)}
    ELSE {Present(<<Absent, VI(43), Absent>>)}

\* Events logged inside the spans; the second has a field named like an
\* extract key.
ScopeEvents ==
    {[cs |-> "ev_mix", vals |-> Present(<<VStr(<<"g", "o">>), Absent, Absent, v3>>)] :
        v3 \in {Absent, VI(9)}}

\* ------------------------------------------------------ the specifications

\* No thread has logged yet: the set-up (registrations, spans, the clock) is
\* made before the event.
Fresh == started = 0

\* One thread logs one event of any field shape, after the set-up.
FieldInit == InitLayer /\ pid \in Pids

FieldNext ==
    \/ Fresh /\ UNCHANGED registrations
             /\ \E cs \in {"ev_dup", "ev_mix"} : RegisterCallsite(cs)
    \/ Fresh /\ Tick
    \/ Fresh /\ \E ev \in FieldEvents, amb \in Ambients : OnEvent(1, ev, amb)
    \/ Format(1)
    \/ AcquireWriter(1)
    \/ \E ok \in BOOLEAN : WriteAll(1, ok)
    \/ \E ok \in BOOLEAN : FallbackWrite(1, ok)
    \/ Return(1)

FieldSpec == FieldInit /\ [][FieldNext]_vars

\* One thread opens, records on and leaves spans, and then logs one event
\* inside them.
ScopeInit == InitLayer /\ pid = 1234

ScopeNext ==
    \/ Fresh /\ UNCHANGED registrations
             /\ \E cs \in {"sp_a", "sp_b"} : RegisterCallsite(cs)
    \/ Fresh /\ \E cs \in {"sp_a", "sp_b"} : \E attrs \in SpanAttrs(cs) : NewSpan(1, cs, attrs)
    \/ Fresh /\ \E d \in 1..Len(scope[1]) :
                  \E vals \in RecordValues(scope[1][d].cs) : Record(1, 1, d, vals)
    \/ Fresh /\ ExitSpan(1)
    \/ Fresh /\ \E ev \in ScopeEvents : OnEvent(1, ev, MainAmbient)
    \/ Format(1)
    \/ AcquireWriter(1)
    \/ \E ok \in BOOLEAN : WriteAll(1, ok)
    \/ \E ok \in BOOLEAN : FallbackWrite(1, ok)
    \/ Return(1)

ScopeSpec == ScopeInit /\ [][ScopeNext]_vars

\* The layer under a thread that logs events whose Debug values log, fail or
\* panic, with a writer that may fail and call sites that are registered
\* between the steps.
CtlEvents ==
    {[cs |-> "ev_dup", vals |-> Present(<<VStr(<<"m", "\n">>), VI(1)>>)],
     [cs |-> "ev_mix", vals |-> Present(<<VStr(<<"g", "o">>), VDbg(<<"d", "\n">>, "logs")>>)],
     [cs |-> "ev_mix", vals |-> Present(<<VStr(<<"g", "o">>), VDbg(<<"d", "\n">>, "fails")>>)],
     [cs |-> "ev_mix", vals |-> Present(<<VStr(<<"g", "o">>), VDbg(<<"d">>, "panics")>>)],
     [cs |-> "ev_wide", vals |-> [i \in {MaskWidth} |-> VI(1)]]}

Init == InitLayer /\ pid = 1234

Next ==
    \/ UNCHANGED registrations
       /\ \E cs \in {"ev_big", "ev_wide", "sp_a"} : RegisterCallsite(cs)
    \/ \E ev \in CtlEvents : OnEvent(1, ev, MainAmbient)
    \/ Format(1)
    \/ AcquireWriter(1)
    \/ \E ok \in BOOLEAN : WriteAll(1, ok)
    \/ \E ok \in BOOLEAN : FallbackWrite(1, ok)
    \/ Return(1)
    \/ Unwind(1)

Spec == Init /\ [][Next]_vars

\* Two threads log one event each at the same time through the one writer,
\* whose write_all may take several writes and may fail.
LockEvents ==
    {[cs |-> "ev_dup", vals |-> Present(<<VStr(<<"m", "0">>), VI(1)>>)],
     [cs |-> "ev_mix", vals |-> Present(<<VStr(<<"g", "o">>), VDbg(<<"d">>, "fails")>>)]}

LockInit == InitLayer /\ pid = 1234

LockNext ==
    \E t \in Threads :
        \/ ended[t] = "none" /\ \E ev \in LockEvents : OnEvent(t, ev, MainAmbient)
        \/ Format(t)
        \/ AcquireWriter(t)
        \/ WriteSome(t)
        \/ \E ok \in BOOLEAN : WriteAll(t, ok)
        \/ \E ok \in BOOLEAN : FallbackWrite(t, ok)
        \/ Return(t)

LockSpec == LockInit /\ [][LockNext]_vars

\* The framework registers call sites, each several times (it registers a
\* call site again when it rebuilds its interest cache).
RegistryInit == InitLayer /\ pid = 1234

RegistryNext ==
    \E cs \in AllCallsites :
        /\ registrations[cs] < MaxRegistrations
        /\ registrations' = [registrations EXCEPT ![cs] = @ + 1]
        /\ RegisterCallsite(cs)

RegistrySpec == RegistryInit /\ [][RegistryNext]_vars

\* Two threads register the span call sites at the same time, each call
\* site several times.
IdCallsites == {cs \in AllCallsites : ~Meta(cs).is_event}

IdInit == InitLayer /\ pid = 1234

IdNext ==
    \E t \in Threads :
        \/ \E cs \in IdCallsites :
              /\ registrations[cs] < MaxRegistrations
              /\ registrations' = [registrations EXCEPT ![cs] = @ + 1]
              /\ BeginCallsiteId(t, cs)
        \/ GetCallsiteId(t)
        \/ NextCallsiteId(t)
        \/ InsertCallsiteId(t)

IdSpec == IdInit /\ [][IdNext]_vars

\* One thread opens spans and logs an event inside them, while another
\* thread records values on those spans while the event is formatted:
\* before, during and after the iteration of their stores.
StoreRecords(cs) ==
    RecordValues(cs) \cup (IF cs = "sp_a" THEN {Present(<<Absent, VI(6)>>)} ELSE {})

\* The attributes the spans are created with: the first span with or
\* without a value for z.
StoreAttrs(cs) ==
    IF cs = "sp_a" THEN {Present(<<VI(24), vz>>) : vz \in {Absent, VI(5)}}
    ELSE {Present(<<VBool(TRUE), VI(41), VI(42)>>)}

\* The most spans the event is logged inside of while another thread
\* records on them.
MaxShared == 1

StoreInit == InitLayer /\ pid = 1234

StoreNext ==
    \/ Fresh /\ Len(scope[1]) < MaxShared
             /\ \E cs \in {"sp_a", "sp_b"} : \E attrs \in StoreAttrs(cs) : NewSpan(1, cs, attrs)
    \/ Fresh /\ \E ev \in ScopeEvents : OnEvent(1, ev, MainAmbient)
    \/ Formatting(1) /\ \E d \in 1..Len(scope[1]) :
                          \E vals \in StoreRecords(scope[1][d].cs) :
                              ExtensionsShared(1, d) /\ Record(2, 1, d, vals)
    \/ BeginVisit(1)
    \/ VisitEntry(1)
    \/ FormatVisited(1)
    \/ AcquireWriter(1)
    \/ \E ok \in BOOLEAN : WriteAll(1, ok)
    \/ \E ok \in BOOLEAN : FallbackWrite(1, ok)
    \/ Return(1)

StoreSpec == StoreInit /\ [][StoreNext]_vars

\* One thread opens spans, some of them without a SpanFields extension,
\* records on them and logs one event inside them.
UnseenNext ==
    \/ Fresh /\ UNCHANGED registrations /\ RegisterCallsite("sp_a")
    \/ Fresh /\ \E cs \in {"sp_a", "sp_b"} : \E attrs \in StoreAttrs(cs) : NewSpan(1, cs, attrs)
    \/ Fresh /\ \E cs \in {"sp_a", "sp_b"} : NewSpanUnseen(1, cs)
    \/ Fresh /\ \E d \in 1..Len(scope[1]) :
                  \E vals \in StoreRecords(scope[1][d].cs) : Record(1, 1, d, vals)
    \/ Fresh /\ \E ev \in ScopeEvents : OnEvent(1, ev, MainAmbient)
    \/ Format(1)
    \/ AcquireWriter(1)
    \/ \E ok \in BOOLEAN : WriteAll(1, ok)
    \/ \E ok \in BOOLEAN : FallbackWrite(1, ok)
    \/ Return(1)

UnseenSpec == ScopeInit /\ [][UnseenNext]_vars

\* ------------------------------------------------------- reading the lines

\* The on_event calls in progress, as <<thread, depth>>.
Calls == {c \in Threads \X (1..MaxEvents) : c[2] <= Len(stack[c[1]])}

Frame(c) == stack[c[1]][c[2]]

\* The calls whose line is formatted and on its way to the writer.
Handing == {c \in Calls : Frame(c).pc \in {"write", "writing"}}

LineOf(c) == BufferOf(c[1], Frame(c))

\* The positions of the members of an object whose serializer received ops:
\* a key directly followed by a value.
Members(ops) == {i \in 1..(Len(ops) - 1) : ops[i].op = "key" /\ ops[i + 1].op = "value"}

\* The values the top-level object of a line holds under a key.
TopValues(buf, key) == {buf.ops[i + 1].v : i \in {m \in Members(buf.ops) : buf.ops[m].top = key}}

\* The values a nested object holds under the name.
ValuesAt(obj, name) == {obj.ops[i + 1].v : i \in {m \in Members(obj.ops) : obj.ops[m].k = name}}

\* The occurrences of the name among the keys of a nested object.
KeyCount(obj, name) == Cardinality({i \in 1..Len(obj.ops) :
                                      obj.ops[i].op = "key" /\ obj.ops[i].k = name})

KeysOf(obj) == {obj.ops[i].k : i \in {m \in 1..Len(obj.ops) : obj.ops[m].op = "key"}}

EmptyObject == JObj(<<>>, TRUE)

\* The fields object of a line; format leaves the member out when the event
\* has no field to show, which reads as an object without members.
FieldsObject(buf) == IF TopValues(buf, "fields") = {} THEN EmptyObject
                     ELSE CHOOSE o \in TopValues(buf, "fields") : TRUE

RECURSIVE WellFormedOps(_)
\* Every key is followed by exactly one value and every value preceded by a
\* key, in the object and in the objects nested in it.
WellFormedOps(ops) ==
    /\ Len(ops) % 2 = 0
    /\ \A i \in 1..Len(ops) :
          IF i % 2 = 1 THEN ops[i].op = "key"
          ELSE /\ ops[i].op = "value"
               /\ ops[i].v.j = "obj" => ops[i].v.closed /\ WellFormedOps(ops[i].v.ops)

\* One complete JSON object followed by one newline.
WellFormedLine(buf) == buf.closed /\ buf.nl = 1 /\ WellFormedOps(buf.ops)

\* The names a call site declares, and the highest index declaring a name.
NamesOf(cs) == {FieldName(cs, i) : i \in 0..(NumFields(cs) - 1)}

LastIndex(cs, name) ==
    CHOOSE i \in 0..(NumFields(cs) - 1) :
        /\ FieldName(cs, i) = name
        /\ \A j \in 0..(NumFields(cs) - 1) : FieldName(cs, j) = name => j <= i

\* ----------------------------------------------------------------- claims

\* C1 (call-site dedup): for every event of a registered call site whose
\* line is formatted, each declared name other than "message" (and outside
\* the log. prefix) appears in `fields` only through its highest-index
\* occurrence - once, under its name, with that occurrence's value, or not
\* at all when the event gives that occurrence no value - and `message`
\* holds the value of the highest-index field named "message".
C1_CallsiteDedup ==
    \A c \in Handing :
        LET f == Frame(c)
            cs == f.ev.cs
            fields == FieldsObject(LineOf(c))
        IN interest[cs] = "always" =>
              /\ \A n \in NamesOf(cs) \ {MESSAGE_FIELD} :
                    ~StartsWith(n, LogPrefix) =>
                       LET h == LastIndex(cs, n)
                       IN IF h \in DOMAIN f.ev.vals
                          THEN /\ KeyCount(fields, n) = 1
                               /\ ValuesAt(fields, n) = {EventValue(f.ev.vals[h])}
                          ELSE KeyCount(fields, n) = 0
              /\ MESSAGE_FIELD \in NamesOf(cs) =>
                    LET h == LastIndex(cs, MESSAGE_FIELD)
                    IN TopValues(LineOf(c), "message") =
                          {IF h \in DOMAIN f.ev.vals THEN EventValue(f.ev.vals[h])
                           ELSE JStr(<<>>)}

\* C2 (valid JSON): every line handed to the writer - the formatted line of
\* an event or the fallback line - is one well-formed JSON object followed
\* by one newline: in the top-level object and in every nested object each
\* key is followed by exactly one value and each value is preceded by its
\* key.
C2_ValidJson ==
    /\ \A c \in Handing : WellFormedLine(LineOf(c))
    /\ \A c \in Calls : Frame(c).pc = "fbwriting" => WellFormedLine(FallbackLine(Frame(c).now, Frame(c).ev))
    /\ \A i \in DOMAIN sink : WellFormedLine(sink[i].line)

\* The spans object of a line, and the object it holds for the i-th span
\* of the scope (root first).
SpansObject(buf) == CHOOSE o \in TopValues(buf, "spans") : TRUE

SpanObject(buf, i) == SpansObject(buf).ops[2 * i].v

\* The extract object of a line; format leaves the member out when no
\* extract slot was set.
ExtractObject(buf) == IF TopValues(buf, "extract") = {} THEN EmptyObject
                      ELSE CHOOSE o \in TopValues(buf, "extract") : TRUE

\* C3 (span key uniqueness): in every formatted line the spans object has
\* one key per span of the scope, the key of a span is its name, "#" and
\* the id of its call site, and no two of the keys are equal.
C3_SpanKeysUnique ==
    \A c \in Handing :
        LET sc == scope[c[1]]
            spans == SpansObject(LineOf(c))
        IN /\ Len(spans.ops) = 2 * Len(sc)
           /\ \A i \in 1..Len(sc) :
                 /\ spans.ops[2 * i - 1].op = "key"
                 /\ \E cid \in 0..counter :
                       spans.ops[2 * i - 1].k = SpanKey(Meta(sc[i].cs).name, cid)
           /\ \A i, j \in 1..Len(sc) :
                 i # j => spans.ops[2 * i - 1].k # spans.ops[2 * j - 1].k

\* The spans of a scope that hold a field of the name.
Holders(sc, name) == {i \in 1..Len(sc) : sc[i].store # <<>> /\ name \in DOMAIN sc[i].store[1]}

Innermost(is) == CHOOSE i \in is : \A j \in is : j <= i

\* C4 (extract projection): in every formatted line each key of the extract
\* object is a configured extract name, occurs once, and its value is the
\* value that the innermost span of the scope holding a field of that name
\* holds for it.
C4_ExtractProjection ==
    \A c \in Handing :
        LET sc == scope[c[1]]
            ex == ExtractObject(LineOf(c))
        IN \A n \in KeysOf(ex) :
              /\ GetFull(ExtractFields, n) # {}
              /\ KeyCount(ex, n) = 1
              /\ Holders(sc, n) # {}
              /\ ValuesAt(ex, n) = {sc[Innermost(Holders(sc, n))].store[1][n]}

\* Reached: the event is logged inside two spans that both hold x, with
\* different values, and extract shows the inner span's x.
C4_Witness ==
    \E c \in Handing :
        LET sc == scope[c[1]]
        IN /\ Len(sc) = 2
           /\ Holders(sc, NameX) = {1, 2}
           /\ sc[1].store[1][NameX] # sc[2].store[1][NameX]
           /\ ValuesAt(ExtractObject(LineOf(c)), NameX) = {sc[2].store[1][NameX]}

\* C5 (last write wins for span fields): in every formatted line the object
\* of each span of the scope has exactly the names that on_new_span and
\* on_record gave a value for, each once, with the value of the last
\* assignment to the name.
C5_LastWriteWins ==
    \A c \in Handing :
        LET sc == scope[c[1]]
        IN \A i \in 1..Len(sc) :
              LET obj == SpanObject(LineOf(c), i)
              IN /\ KeysOf(obj) = DOMAIN sc[i].assigned
                 /\ \A n \in DOMAIN sc[i].assigned :
                       /\ KeyCount(obj, n) = 1
                       /\ ValuesAt(obj, n) = {SpanValue(sc[i].assigned[n])}

\* Reached: a span created with x = 41, x = 42 and then recorded x = 43 is
\* emitted with x = 43.
C5_Witness ==
    \E c \in Handing :
        LET sc == scope[c[1]]
        IN \E i \in 1..Len(sc) :
              /\ sc[i].cs = "sp_b"
              /\ NameX \in DOMAIN sc[i].assigned
              /\ sc[i].assigned[NameX] = VI(43)
              /\ ValuesAt(SpanObject(LineOf(c), i), NameX) = {JNum(DecChars(43))}

\* The lines the writer received from the on_event call with the id.
LinesOf(id) == {i \in DOMAIN sink : sink[i].id = id}

\* A whole line: the object is closed and one newline follows it.
Complete(buf) == buf.closed /\ buf.nl = 1

\* A step of the innermost on_event call of thread t, or of what it calls,
\* other than the end of format.
Step(t) ==
    \/ AcquireWriter(t)
    \/ \E ok \in BOOLEAN : WriteAll(t, ok)
    \/ \E ok \in BOOLEAN : FallbackWrite(t, ok)
    \/ Return(t)
    \/ Unwind(t)
    \/ \E ev \in CtlEvents : OnEvent(t, ev, MainAmbient)

C7_FlagReset ==
    \A t \in Threads :
        /\ Idle(t) => ~guard[t]
        /\ Len(stack[t]) = 1 /\ stack[t][1].pc \in {"fallback", "fbwriting", "ret"}
              => ~guard[t]

\* Reached: a panic has unwound through the outermost call of thread 1,
\* no call is active and the flag is clear.
C7_Witness == Idle(1) /\ ended[1] = "unwound" /\ ~guard[1]

\* Whether a field of index MaskWidth or more is shadowed by a later field
\* of the same name, per call site.
ShadowedHigh ==
    [cs \in AllCallsites |->
        \E i \in MaskWidth..(NumFields(cs) - 1) :
            \E j \in (i + 1)..(NumFields(cs) - 1) : FieldName(cs, i) = FieldName(cs, j)]

\* The call sites that declare more than MaskWidth fields.
WideCallsites == {cs \in AllCallsites : NumFields(cs) > MaskWidth}

\* C8 as stated (registration overflow): registering a call
\* site of more than 64 fields does not panic and returns "not interested",
\* and no event of that call site gets a line.
C8_Refused ==
    /\ \A cs \in WideCallsites : interest[cs] \in {"unregistered", "never"}
    /\ \A c \in Calls : Frame(c).ev.cs \in WideCallsites => Frame(c).tries = 0

\* C8 amended: registering a call site of more than 64 fields
\* panics, storing no mask, exactly when a field of index 64 or more is
\* shadowed by a later field of the same name, and returns "always
\* interested" otherwise - never "not interested"; an event of such a call
\* site is formatted like any other, except that format panics, and nothing
\* is written, when the call site has a stored mask and the event has a
\* value for a field of index 64 or more.
C8_Overflow ==
    /\ \A cs \in WideCallsites :
          /\ interest[cs] \in {"unregistered", "always", "panic"}
          /\ interest[cs] = "panic" => ShadowedHigh[cs] /\ cs \notin DOMAIN skipped_field_indices
          /\ interest[cs] = "always" => ~ShadowedHigh[cs]
    /\ \A c \in Calls :
          LET f == Frame(c)
              high == \E i \in DOMAIN f.ev.vals : i >= MaskWidth
          IN f.ev.cs \in WideCallsites /\ f.pc # "format" =>
                IF f.mask # <<>> /\ high
                THEN f.pc = "panicked" /\ f.tries = 0 /\ LinesOf(f.id) = {}
                ELSE f.pc # "panicked"

\* Reached: the registration of one wide call site has panicked, that of
\* another has returned "always", and an event of the latter has panicked
\* in format.
C8_Witness ==
    /\ interest["ev_big"] = "panic"
    /\ interest["ev_wide"] = "always"
    /\ \E c \in Calls : Frame(c).ev.cs = "ev_wide" /\ Frame(c).pc = "panicked"

C10_NoFurtherAttempt ==
    \A c \in Calls : Frame(c).wfail => Frame(c).pc = "ret" /\ Frame(c).tries = 1

\* C10 amended: after write_all of the formatted line has
\* failed, the call makes exactly one further write attempt, of the
\* fallback line; the result of that attempt is dropped, the call then
\* returns without panicking, and the writer has received from it at most
\* the fallback line.  The one way out of this is a panic that an event
\* logged by a Debug implementation, while the fallback line is built,
\* sends through the call before its second attempt.
C10_WriterFailure ==
    \A c \in Calls :
        LET f == Frame(c)
        IN /\ f.tries <= 2
           /\ f.tries = 2 => f.wfail
           /\ f.wfail /\ f.res = "panic" => f.pc = "panicked" /\ f.tries = 1 /\ f.wrote = 0
           /\ f.wfail /\ f.res # "panic" =>
                 /\ f.pc \in {"fallback", "fbwriting", "ret"}
                 /\ f.tries = (IF f.pc = "ret" THEN 2 ELSE 1)
                 /\ Cardinality(LinesOf(f.id)) = f.wrote
                 /\ f.wrote <= 1
                 /\ \A i \in LinesOf(f.id) : sink[i].line = FallbackLine(f.now, f.ev)

\* Reached: a call whose write_all failed has written the fallback line at
\* its second attempt and is about to return.
C10_Witness ==
    \E c \in Calls :
        LET f == Frame(c)
        IN f.wfail /\ f.pc = "ret" /\ f.tries = 2 /\ f.wrote = 1 /\ LinesOf(f.id) # {}

\* The calls whose format returned an error.
FormatFailed == {c \in Calls : Frame(c).res = "err" /\ ~Frame(c).wfail}

\* What format returns for the event of a call.
Formatted(c) ==
    FormatLine(Frame(c).now, Frame(c).ev, Frame(c).mask, scope[c[1]], callsite_ids,
               Frame(c).amb, pid, ThreadId(c[1]))

\* C11 (serialization failure): a call whose format returned a serializer
\* error goes to the fallback and from there to its return, never into a
\* panic; it makes exactly one write attempt, whose line is the fallback
\* line - timestamp, level "ERROR", a message and fields.event - and not
\* the partly built line, and the fallback line does not pass through the
\* buffer of the formatter.
C11_SerializationFailure ==
    \A c \in FormatFailed :
        LET f == Frame(c)
            fb == FallbackLine(f.now, f.ev)
        IN /\ f.pc \in {"fallback", "fbwriting", "ret"}
           /\ f.tries = (IF f.pc = "ret" THEN 1 ELSE 0)
           /\ f.wrote <= f.tries
           /\ Cardinality(LinesOf(f.id)) = f.wrote
           /\ \A i \in LinesOf(f.id) : sink[i].line = fb
           /\ TopValues(fb, "timestamp") = {[j |-> "time", at |-> f.now]}
           /\ TopValues(fb, "level") = {JText("ERROR")}
           /\ Cardinality(TopValues(fb, "message")) = 1
           /\ \E o \in TopValues(fb, "fields") : KeysOf(o) = {<<"e", "v", "e", "n", "t">>}
           /\ ~Complete(Formatted(c).buf)
           /\ c[2] = Len(stack[c[1]]) => LineOf(c) # fb

\* Reached: a call whose format failed has written the fallback line and is
\* about to return.
C11_Witness ==
    \E c \in FormatFailed :
        /\ Frame(c).pc = "ret" /\ Frame(c).wrote = 1
        /\ \E i \in LinesOf(Frame(c).id) : sink[i].line = FallbackLine(Frame(c).now, Frame(c).ev)
        /\ Formatted(c).buf.ops # <<>>

IsNewline(byte) == byte = "\n"

\* The bytes have exactly one newline, and it is the last byte.
OneLine(buf) ==
    LET b == Bytes(buf)
    IN /\ b # <<>>
       /\ b[Len(b)] = "\n"
       /\ SelectSeq(b, IsNewline) = <<"\n">>

\* C12 (one line): every line handed to the writer - on the normal path,
\* from a nested call and as the fallback line - has exactly one newline
\* byte, its last byte, and the writer receives at most one line per event.
C12_OneLine ==
    /\ \A line \in {LineOf(c) : c \in Handing}
                    \cup {FallbackLine(Frame(c).now, Frame(c).ev) :
                             c \in {d \in Calls : Frame(d).pc = "fbwriting"}}
                    \cup {sink[i].line : i \in DOMAIN sink} : OneLine(line)
    /\ \A i, j \in DOMAIN sink : sink[i].id = sink[j].id => i = j

\* Reached: the writer holds the line of an event whose message has a
\* newline in it, and a call is writing the fallback line of an event whose
\* Debug text has a newline in it.
C12_Witness ==
    /\ \E i \in DOMAIN sink :
          \E v \in TopValues(sink[i].line, "message") :
              v.j = "str" /\ \E k \in DOMAIN v.t : v.t[k] = "\n"
    /\ \E c \in Calls :
          /\ Frame(c).pc = "fbwriting"
          /\ \E k \in DOMAIN EventDebug(Frame(c).ev, 0) : EventDebug(Frame(c).ev, 0)[k] = "\n"

\* The order of the top-level keys.
KeyOrder == <<"timestamp", "level", "message", "fields", "spans", "process_id", "thread_id",
              "thread_name", "task_id", "target", "module", "src", "trace_id", "extract">>

Rank(key) == CHOOSE i \in 1..Len(KeyOrder) : KeyOrder[i] = key

\* The top-level keys of the line are keys of the list, in its order.
InKeyOrder(buf) ==
    LET keys == {i \in 1..Len(buf.ops) : buf.ops[i].op = "key"}
    IN /\ \A i \in keys : \E r \in 1..Len(KeyOrder) : KeyOrder[r] = buf.ops[i].top
       /\ \A i, j \in keys : i < j => Rank(buf.ops[i].top) < Rank(buf.ops[j].top)

\* C13 (key order): in every line handed to the writer - a formatted line
\* or the fallback line - the top-level keys that are present appear in the
\* order timestamp, level, message, fields, spans, process_id, thread_id,
\* thread_name, task_id, target, module, src, trace_id, extract.
C13_KeyOrder ==
    /\ \A c \in Handing : InKeyOrder(LineOf(c))
    /\ \A c \in Calls : Frame(c).pc = "fbwriting" =>
                            InKeyOrder(FallbackLine(Frame(c).now, Frame(c).ev))
    /\ \A i \in DOMAIN sink : InKeyOrder(sink[i].line)

\* ------------------------------------------------------------ line order

\* The lines one thread wrote, as positions of the sink.
LinesBy(t) == {i \in DOMAIN sink : sink[i].by = t}

\* C14 (emission order): the lines of one thread are in the sink in the order
\* in which their on_event calls were made, also when a call is made while
\* another call of the thread is formatting.
C14_EmissionOrder ==
    \A t \in Threads : \A i, j \in LinesBy(t) : i < j => sink[i].id < sink[j].id

\* C14 as the code has it: a call writes its line after the calls made while
\* it formats have written theirs, so a line precedes the lines of the calls
\* it was made inside of; any two other lines of a thread are in the order
\* in which their on_event calls were made.
C14_CompletionOrder ==
    \A t \in Threads : \A i, j \in LinesBy(t) :
        i < j => /\ sink[i].id \notin sink[j].under
                 /\ sink[i].id < sink[j].id \/ sink[j].id \in sink[i].under

\* Three lines: that of an event logged from a Debug value, then that of the
\* event that has the value, then that of an event logged after it returned.
C14_Witness ==
    \E i, j, k \in LinesBy(1) :
        /\ i < j /\ j < k
        /\ sink[j].id \in sink[i].under /\ sink[j].id < sink[i].id
        /\ sink[k].under = {} /\ sink[j].id < sink[k].id

\* -------------------------------------------------------- line atomicity

\* The parts of the line of call id that are in the sink, in sink order.
PartsOf(id) == [k \in 1..Cardinality(LinesOf(id)) |->
                  sink[CHOOSE i \in LinesOf(id) :
                          Cardinality({j \in LinesOf(id) : j <= i}) = k].part]

\* The calls that are inside write_all.
Writing == {c \in Calls : Frame(c).pc \in {"writing", "fbwriting"}}

Is128(val) == val.ty \in {"i128", "u128"}

\* A 128-bit integer as a number when 64 bits hold it, else as the string of
\* its decimal digits.
Coerced128(val) ==
    IF (IF val.ty = "i128" THEN FitsI64(val.v) ELSE FitsU64(val.v))
    THEN JNum(val.v) ELSE JStr(val.v)

\* 128-bit values at and beyond the ends of the 64-bit ranges.
Wide128 ==
    {VU128(<<"7">>), VU128(U64MaxDigits), VU128(<<"1">> \o Tail(U64MaxDigits) \o <<"0">>),
     VU128(U128Max), VI128(<<"-", "7">>), VI128(I64MaxDigits),
     VI128(<<"-">> \o I64MinDigits), VI128(<<"-", "1">> \o I64MinDigits),
     VI128(U64MaxDigits)}

\* The least index of a field named "message" that has a value and is not
\* skipped, as a set (empty when there is none).
FirstMessage(ev, maskOpt) ==
    LET is == {i \in DOMAIN ev.vals :
                  FieldName(ev.cs, i) = MESSAGE_FIELD /\ ~IsSkipped(maskOpt, i)}
    IN {i \in is : \A j \in is : i <= j}

\* C16 (128-bit coercion): the span recorder stores, the message slot holds
\* and the fields object holds a 128-bit integer as a JSON number when it
\* fits 64 bits and as the JSON string of its decimal digits otherwise.
C16_Coercion128 ==
    /\ \A val \in Wide128 : SpanValue(val) = Coerced128(val)
    /\ \A c \in Handing :
          LET ev == Frame(c).ev
              buf == LineOf(c)
          IN \A i \in DOMAIN ev.vals :
                Is128(ev.vals[i]) /\ ~IsSkipped(Frame(c).mask, i) =>
                    IF FieldName(ev.cs, i) = MESSAGE_FIELD
                    THEN i \in FirstMessage(ev, Frame(c).mask) =>
                             TopValues(buf, "message") = {Coerced128(ev.vals[i])}
                    ELSE ~StartsWith(FieldName(ev.cs, i), LogPrefix) =>
                             Coerced128(ev.vals[i]) \in
                                 ValuesAt(FieldsObject(buf), FieldName(ev.cs, i))

RECURSIVE HexString(_)
\* The bytes as lower-case hex digits, two per byte, nothing between them.
HexString(bytes) ==
    IF bytes = <<>> THEN <<>>
    ELSE <<HexDigits[(bytes[1] \div 16) + 1], HexDigits[(bytes[1] % 16) + 1]>>
         \o HexString(Tail(bytes))

\* Byte slices with bytes below and above 16.
ByteSlices == {<<>>, <<1, 171>>, <<10, 255>>, <<171>>}

\* C17 (byte-slice coercion): the span recorder stores, the message slot
\* holds and the fields object holds a byte slice as one JSON string of
\* lower-case hex digits, two per byte, without brackets or separators.
C17_BytesHex ==
    /\ \A bytes \in ByteSlices : SpanValue(VBytes(bytes)) = JStr(HexString(bytes))
    /\ \A c \in Handing :
          LET ev == Frame(c).ev
              buf == LineOf(c)
          IN \A i \in DOMAIN ev.vals :
                ev.vals[i].ty = "bytes" /\ ~IsSkipped(Frame(c).mask, i) =>
                    IF FieldName(ev.cs, i) = MESSAGE_FIELD
                    THEN i \in FirstMessage(ev, Frame(c).mask) =>
                             TopValues(buf, "message") = {JStr(HexString(ev.vals[i].bytes))}
                    ELSE ~StartsWith(FieldName(ev.cs, i), LogPrefix) =>
                             JStr(HexString(ev.vals[i].bytes)) \in
                                 ValuesAt(FieldsObject(buf), FieldName(ev.cs, i))

\* ----------------------------------------------------------- message slot

\* The positions of the top-level key of a line.
TopKeyAt(buf, key) == {i \in 1..Len(buf.ops) : buf.ops[i].op = "key" /\ buf.ops[i].top = key}

\* C18 (message slot): every formatted line has the key `message` once,
\* followed by one value and then by the next key; the value is that of the
\* first field named "message" that has a value and is not in the skip mask,
\* whatever fields named "message" follow it, and the empty string when the
\* event has no such field.
C18_MessageSlot ==
    \A c \in Handing :
        LET ev == Frame(c).ev
            buf == LineOf(c)
            first == FirstMessage(ev, Frame(c).mask)
        IN /\ Cardinality(TopKeyAt(buf, "message")) = 1
           /\ \A k \in TopKeyAt(buf, "message") :
                 /\ k + 2 <= Len(buf.ops)
                 /\ buf.ops[k + 1].op = "value"
                 /\ buf.ops[k + 2].op = "key"
                 /\ buf.ops[k + 1].v = IF first = {} THEN JStr(<<>>)
                                       ELSE EventValue(ev.vals[CHOOSE i \in first : TRUE])

\* A formatted line of an event with two message fields that both have a
\* value, differ and are not skipped: the line has the first.
C18_Witness ==
    \E c \in Handing :
        LET ev == Frame(c).ev
            named == {i \in DOMAIN ev.vals : FieldName(ev.cs, i) = MESSAGE_FIELD}
        IN /\ Frame(c).mask = <<>>
           /\ Cardinality(named) = 2
           /\ ev.vals[0] # ev.vals[4]
           /\ TopValues(LineOf(c), "message") = {EventValue(ev.vals[0])}

\* ---------------------------------------------------------- fields object

\* The fields of an event that have a value and qualify for the fields
\* object: not named "message", not under the log. prefix, not in the mask.
Qualifying(ev, maskOpt) ==
    {i \in DOMAIN ev.vals : /\ FieldName(ev.cs, i) # MESSAGE_FIELD
                            /\ ~StartsWith(FieldName(ev.cs, i), LogPrefix)
                            /\ ~IsSkipped(maskOpt, i)}

\* C19 (fields object): a formatted line has the key `fields` exactly when
\* its event has a qualifying field, and then the keys of the object are the
\* names of the qualifying fields, one key per field: the object is never
\* empty and has no key "message" and no key under the log. prefix.
C19_FieldsObject ==
    \A c \in Handing :
        LET ev == Frame(c).ev
            buf == LineOf(c)
            q == Qualifying(ev, Frame(c).mask)
            obj == FieldsObject(buf)
        IN /\ TopKeyAt(buf, "fields") # {} <=> q # {}
           /\ Cardinality(TopKeyAt(buf, "fields")) <= 1
           /\ KeysOf(obj) = {FieldName(ev.cs, i) : i \in q}
           /\ \A i \in q : KeyCount(obj, FieldName(ev.cs, i))
                               = Cardinality({j \in q : FieldName(ev.cs, j) = FieldName(ev.cs, i)})
           /\ TopKeyAt(buf, "fields") # {} => KeysOf(obj) # {}
           /\ \A k \in KeysOf(obj) : k # MESSAGE_FIELD /\ ~StartsWith(k, LogPrefix)

\* ---------------------------------------------------------------- registry

\* C20 (registry idempotence): once a call site has an id, or a skip mask,
\* every later register_callsite call (and the callsite_id call it makes)
\* leaves the call site with the same id and the same mask: a record that
\* exists is not changed and not removed by any step.
C20_RegistryIdempotent ==
    [][/\ \A cs \in DOMAIN callsite_ids :
             cs \in DOMAIN callsite_ids' /\ callsite_ids'[cs] = callsite_ids[cs]
       /\ \A cs \in DOMAIN skipped_field_indices :
             /\ cs \in DOMAIN skipped_field_indices'
             /\ skipped_field_indices'[cs] = skipped_field_indices[cs]]_vars

\* Both span call sites and an event call site with a repeated name have
\* been registered three times each; the spans hold the ids 1 and 2, the
\* event call site holds the mask of its first registration.
C20_Witness ==
    /\ \A cs \in {"sp_a", "sp_b", "ev_dup"} : registrations[cs] = MaxRegistrations
    /\ DOMAIN callsite_ids = {"sp_a", "sp_b"}
    /\ callsite_ids["sp_a"] = 2 /\ callsite_ids["sp_b"] = 1
    /\ counter = 3
    /\ "ev_dup" \in DOMAIN skipped_field_indices
    /\ skipped_field_indices["ev_dup"] = SkippedTable["ev_dup"].bits

\* C21 (call-site ids): COUNTER starts at 1 and no step lowers it; under
\* every interleaving of the callsite_id calls of two threads, every id the
\* map holds is at least 1 and was taken from the counter (it is below the
\* counter), and two distinct call sites never hold the same id.
C21_CallsiteIds ==
    [][/\ counter >= 1
       /\ counter' >= counter
       /\ \A cs \in DOMAIN callsite_ids' :
             callsite_ids'[cs] >= 1 /\ callsite_ids'[cs] < counter'
       /\ \A c1, c2 \in DOMAIN callsite_ids' :
             c1 # c2 => callsite_ids'[c1] # callsite_ids'[c2]]_vars

\* Reached: both threads made the first registration of one span call site
\* at the same time, so that one of the two ids taken was dropped, and the
\* other call site was registered too: the ids held are 1 or 2 and 3.
C21_Witness ==
    /\ \A t \in Threads : registering[t] = <<>>
    /\ DOMAIN callsite_ids = IdCallsites
    /\ counter = 4
    /\ \E cs \in IdCallsites : callsite_ids[cs] = 3

\* ---------------------------------------------------- span store, shared

\* The format of thread t is iterating the span stores.
Iterating(t) == visiting[t] # <<>> /\ ~visiting[t][1].done

\* The entries of a span's store, as a set of <<name, value>>.
Entries(span) == IF span.store = <<>> THEN {}
                 ELSE {<<n, span.store[1][n]>> : n \in DOMAIN span.store[1]}

\* C22 (span store concurrency): while the format of one thread iterates the
\* stores of its spans, the iteration can always go on (to the next entry or
\* to the end of format) and every on_record call of another thread on any
\* of the spans can be made at once: neither waits for the other.  In the
\* line the event gets, the object of each span holds a name at most once,
\* with the value the store held for it when the iteration began or the
\* value it holds now, and it holds every name the store held when the
\* iteration began.
C22_StoreConcurrency ==
    /\ \A t \in Threads :
          Iterating(t) =>
             /\ ENABLED VisitEntry(t)
                   \/ (Formatting(t) /\ visiting[t][1].d > Len(scope[t]))
             /\ \A o \in Threads \ {t} :
                   Idle(o) =>
                      \A d \in 1..Len(scope[t]) :
                          \A vals \in StoreRecords(scope[t][d].cs) :
                              ENABLED (ExtensionsShared(t, d) /\ Record(o, t, d, vals))
    /\ \A c \in Handing :
          visiting[c[1]] # <<>> /\ visiting[c[1]][1].done =>
             \A k \in 1..Len(scope[c[1]]) :
                 LET obj == SpanObject(LineOf(c), k)
                     before == Entries(visiting[c[1]][1].before[k])
                     now == Entries(scope[c[1]][k])
                 IN /\ \A n \in KeysOf(obj) :
                          /\ KeyCount(obj, n) = 1
                          /\ \A v \in ValuesAt(obj, n) : <<n, v>> \in before \cup now
                    /\ \A e \in before : e[1] \in KeysOf(obj)

\* Reached: another thread recorded z and x on a span while its store was
\* iterated, z after the iterator had passed it and x before the iterator
\* came to it: the line shows the old z and the new x, and the store holds
\* the new values of both.
C22_Witness ==
    \E c \in Handing :
        /\ visiting[c[1]] # <<>> /\ visiting[c[1]][1].done
        /\ \E k \in 1..Len(scope[c[1]]) :
              LET obj == SpanObject(LineOf(c), k)
                  before == visiting[c[1]][1].before[k].store[1]
                  now == scope[c[1]][k].store[1]
              IN /\ scope[c[1]][k].cs = "sp_a"
                 /\ NameZ \in DOMAIN before /\ before[NameZ] = JNum(<<"5">>)
                 /\ before[NameX] = JNum(<<"2", "4">>)
                 /\ now[NameZ] = JNum(<<"6">>) /\ now[NameX] = JNum(<<"7">>)
                 /\ ValuesAt(obj, NameZ) = {JNum(<<"5">>)}
                 /\ ValuesAt(obj, NameX) = {JNum(<<"7">>)}

\* ---------------------------------------------------------------- skip mask

\* The event call sites whose field indices are all below the mask width.
NarrowCallsites == {cs \in AllCallsites : Meta(cs).is_event /\ NumFields(cs) <= MaskWidth}

\* C23 (skip-mask computation): once register_callsite has returned for an
\* event call site whose field indices are all below 64, a field index is
\* in the mask stored for the call site if and only if a field of a larger
\* index has the same name; so of the indices of one name exactly one, the
\* largest, is not in the mask.
C23_SkipMask ==
    \A cs \in NarrowCallsites :
        interest[cs] = "always" =>
           /\ \A i \in 0..(NumFields(cs) - 1) :
                 IsSkipped(MaskOf(cs), i) <=>
                    \E j \in (i + 1)..(NumFields(cs) - 1) : FieldName(cs, j) = FieldName(cs, i)
           /\ \A n \in NamesOf(cs) :
                 {i \in 0..(NumFields(cs) - 1) :
                     FieldName(cs, i) = n /\ ~IsSkipped(MaskOf(cs), i)} = {LastIndex(cs, n)}

\* Reached: the call site of error!(a = .., a = .., a = .., message = ..,
\* "..") is registered and its mask holds the implicit message field and
\* the first two a; the call site with the repeated b holds the first b.
C23_Witness ==
    /\ interest["ev_dup"] = "always"
    /\ MaskOf("ev_dup") = <<{0, 1, 2}>>
    /\ interest["ev_mix"] = "always"
    /\ MaskOf("ev_mix") = <<{4}>>

\* ------------------------------------------------------------ nested calls

\* The step is one of a nested on_event call of thread t: the call begins
\* (a nested frame is pushed), or the innermost call is nested and moves.
NestedStep(t) ==
    \/ /\ Len(stack'[t]) > Len(stack[t])
       /\ stack'[t][Len(stack'[t])].nested
    \/ /\ ~Idle(t)
       /\ Top(t).nested
       /\ stack'[t] # stack[t]

\* C24 (nested formatting frame): every step of a nested on_event call - its
\* beginning, its format into its own buffer, its write, its return or its
\* unwinding - is made with the flag set and leaves the flag, the borrow of
\* the thread-local formatter and the thread-local buffer as they are; and
\* whenever the outer call hands its line to the writer, the thread-local
\* buffer holds the line that format builds for the outer event alone.
C24_NestedFrame ==
    [][\A t \in Threads :
          /\ NestedStep(t) =>
                /\ guard[t] /\ guard'[t]
                /\ borrowed'[t] = borrowed[t]
                /\ tlbuf'[t] = tlbuf[t]
          /\ \A k \in 1..Len(stack'[t]) :
                LET f == stack'[t][k]
                IN ~f.nested /\ f.pc \in {"write", "writing"} =>
                      tlbuf'[t] = FormatLine(f.now, f.ev, f.mask, scope'[t], callsite_ids',
                                             f.amb, pid', ThreadId(t)).buf]_vars

\* Reached: the outer call is inside write_all with its own line in the
\* thread-local buffer, after a call made from a Debug implementation of its
\* event has formatted and written another line.
C24_Witness ==
    /\ Len(stack[1]) = 1
    /\ LET f == stack[1][1]
       IN /\ ~f.nested /\ f.pc = "writing"
          /\ \E i \in DOMAIN sink :
                /\ f.id \in sink[i].under
                /\ sink[i].line # tlbuf[1]
                /\ Complete(sink[i].line)
          /\ tlbuf[1] = FormatLine(f.now, f.ev, f.mask, scope[1], callsite_ids, f.amb, pid,
                                   ThreadId(1)).buf

\* C25 (a record for every call site): once register_callsite has returned
\* for a call site, an event call site has a stored skip mask and a call-site
\* id, and a span call site has a call-site id and no skip mask.
C25_RecordInterned ==
    \A cs \in AllCallsites :
        interest[cs] = "always" =>
           IF Meta(cs).is_event
           THEN cs \in DOMAIN skipped_field_indices /\ cs \in DOMAIN callsite_ids
           ELSE cs \in DOMAIN callsite_ids /\ cs \notin DOMAIN skipped_field_indices

\* ------------------------------------------------- spans without a store

\* C26 (on_record without a store): an on_record call for a span that has
\* no SpanFields extension returns normally and has no effect: the span has
\* no store afterwards either, every other span's store, the skip masks,
\* the call-site ids and the counter are as before, and nothing is written.
C26_RecordDropped ==
    [][\A o \in Threads :
          \A d \in 1..Len(scope[o]) :
              /\ Len(scope'[o]) = Len(scope[o])
              /\ scope[o][d].store = <<>>
              /\ scope'[o][d].assigned # scope[o][d].assigned
              => /\ \A t \in Threads :
                       /\ Len(scope'[t]) = Len(scope[t])
                       /\ \A k \in 1..Len(scope[t]) : scope'[t][k].store = scope[t][k].store
                 /\ UNCHANGED <<registryVars, sink, stack, ended>>]_vars

\* Reached: values were recorded on a span without a store, inside a span
\* that has one; the span still has no store, and the line of an event
\* logged inside both shows an empty object for it.
C26_Witness ==
    \E c \in Handing :
        LET sc == scope[c[1]]
        IN /\ Len(sc) = 2
           /\ sc[1].store # <<>> /\ DOMAIN sc[1].store[1] # {}
           /\ sc[2].store = <<>>
           /\ sc[2].assigned # <<>>
           /\ callsite_ids # <<>>
           /\ SpanObject(LineOf(c), 2) = EmptyObject

\* ------------------------------------------------------------------ extract

\* The configured extract names that a span of the scope holds a field of.
Supplied(sc) == {n \in {ExtractFields[i] : i \in 1..Len(ExtractFields)} : Holders(sc, n) # {}}

\* The keys of an object in the order they were written.
KeySeq(obj) == [i \in 1..(Len(obj.ops) \div 2) |-> obj.ops[2 * i - 1].k]

\* The place of a configured extract name in the configuration.
SlotOf(name) == CHOOSE i \in GetFull(ExtractFields, name) : TRUE

\* The extract buffer when the spans of the scope have been serialized.
ExtractOf(sc) == SpansOps(sc, callsite_ids, 1, [ops |-> <<>>, extract |-> NewExtract]).extract

\* C27 (extract emission): a formatted line has the member `extract`, once,
\* if and only if a span of the event's scope holds a field named like a
\* configured extract key; its keys are then exactly those names, each
\* once, in the order of the configuration, whatever the order in which the
\* spans gave them; and setting a name that is not configured leaves the
\* slots and the touched flag of the buffer as they are.
C27_ExtractEmission ==
    \A c \in Handing :
        LET sc == scope[c[1]]
            buf == LineOf(c)
            ex == ExtractObject(buf)
            keys == KeySeq(ex)
        IN /\ Cardinality(TopKeyAt(buf, "extract")) = (IF Supplied(sc) # {} THEN 1 ELSE 0)
           /\ {keys[i] : i \in DOMAIN keys} = Supplied(sc)
           /\ \A i, j \in DOMAIN keys : i < j => SlotOf(keys[i]) < SlotOf(keys[j])
           /\ ExtractOf(sc).touched <=> Supplied(sc) # {}
           /\ \A n \in {NameZ, NameA, NameB} :
                 \A v \in {JNum(<<"0">>), JStr(<<"s">>)} :
                     /\ ExtractSet(ExtractOf(sc), n, v) = ExtractOf(sc)
                     /\ ExtractSet(NewExtract, n, v) = NewExtract

\* Reached: the outer span holds y and x, and its store gave y before x;
\* the inner span holds z alone; the extract object has x first and y
\* second, and no z.
C27_Witness ==
    \E c \in Handing :
        LET sc == scope[c[1]]
        IN /\ Len(sc) = 2
           /\ sc[1].cs = "sp_b" /\ DOMAIN sc[1].store[1] = {NameX, NameY}
           /\ sc[2].cs = "sp_a" /\ DOMAIN sc[2].store[1] = {NameZ}
           /\ KeySeq(SpanObject(LineOf(c), 1)) = <<NameY, NameX>>
           /\ KeySeq(ExtractObject(LineOf(c))) = <<NameX, NameY>>

\* ------------------------------------------------------- buffer isolation

\* The event of CtlEvents whose Debug value makes the serializer fail.
FailingEvent ==
    [cs |-> "ev_mix", vals |-> Present(<<VStr(<<"g", "o">>), VDbg(<<"d", "\n">>, "fails")>>)]

\* C28 (buffer isolation): a call that is not nested formats into the
\* thread-local buffer after clearing it: while its format runs the buffer
\* holds no byte from before, and the bytes it hands to the writer are the
\* bytes of the line of its own event and nothing else - also after an
\* earlier event of the thread whose format failed and left a part of a
\* line in the buffer.
C28_BufferIsolation ==
    \A t \in Threads :
        \A k \in 1..Len(stack[t]) :
            LET f == stack[t][k]
            IN ~f.nested =>
                  /\ f.pc = "format" => Bytes(tlbuf[t]) = <<>>
                  /\ f.pc \in {"write", "writing"} =>
                        /\ tlbuf[t].kept = <<>>
                        /\ Bytes(tlbuf[t]) =
                              Bytes(FormatLine(f.now, f.ev, f.mask, scope[t], callsite_ids,
                                               f.amb, pid, ThreadId(t)).buf)

\* Reached: the first event of the thread failed in format (the writer has
\* its fallback line), and the second event of the thread, which is not
\* nested, is inside write_all with its own whole line in the buffer.
C28_Witness ==
    /\ Len(stack[1]) = 1
    /\ LET f == stack[1][1]
       IN /\ f.id = 2 /\ ~f.nested /\ f.pc = "writing"
          /\ Len(sink) = 1
          /\ sink[1].id = 1
          /\ sink[1].line = FallbackLine(0, FailingEvent)
          /\ Complete(tlbuf[1])
          /\ Bytes(tlbuf[1])[1] = "{"

\* ------------------------------------------------- extract and the event

\* The line format builds for another event of the same call in progress.
LineFor(c, ev) ==
    FormatLine(Frame(c).now, ev, MaskOf(ev.cs), scope[c[1]], callsite_ids, Frame(c).amb,
               pid, ThreadId(c[1])).buf

\* C29 (extract is fed by spans only): in every formatted line the extract
\* member is the one that any other event logged at the same place would
\* get, whatever the fields of the two events; and a field of the event
\* that is named like a configured extract key is in `fields` under its
\* name, while extract has that key only if a span holds a field of the
\* name, and then with the span's value.
C29_ExtractFromSpans ==
    \A c \in Handing :
        LET sc == scope[c[1]]
            ev == Frame(c).ev
            buf == LineOf(c)
        IN /\ \A other \in ScopeEvents :
                 /\ TopValues(LineFor(c, other), "extract") = TopValues(buf, "extract")
                 /\ Cardinality(TopKeyAt(LineFor(c, other), "extract"))
                       = Cardinality(TopKeyAt(buf, "extract"))
           /\ \A i \in DOMAIN ev.vals :
                 LET n == FieldName(ev.cs, i)
                 IN GetFull(ExtractFields, n) # {} =>
                       /\ ValuesAt(FieldsObject(buf), n) = {EventValue(ev.vals[i])}
                       /\ IF Holders(sc, n) = {} THEN n \notin KeysOf(ExtractObject(buf))
                          ELSE ValuesAt(ExtractObject(buf), n)
                                  = {sc[Innermost(Holders(sc, n))].store[1][n]}

\* Reached: an event with the field x = 9 is logged inside a single span
\* that holds x = 24: the line has x = 9 under fields and x = 24 under
\* extract.
C29_Witness ==
    \E c \in Handing :
        LET sc == scope[c[1]]
            ev == Frame(c).ev
            buf == LineOf(c)
        IN /\ 3 \in DOMAIN ev.vals /\ ev.vals[3] = VI(9)
           /\ ValuesAt(FieldsObject(buf), NameX) = {JNum(<<"9">>)}
           /\ Len(sc) = 1 /\ sc[1].cs = "sp_a"
           /\ ValuesAt(ExtractObject(buf), NameX) = {JNum(<<"2", "4">>)}

\* --------------------------------------------- the thread-local formatter

\* The frames of thread t that are inside the closure of with_borrow_mut:
\* calls that found the flag clear and have not left the closure.
InClosure(t) ==
    {k \in 1..Len(stack[t]) :
        /\ ~stack[t][k].nested
        /\ stack[t][k].pc \in {"format", "write", "writing"}}

\* The frames of thread t that found the flag clear and that a panic is
\* about to unwind: the panic was raised inside the closure (the borrow is
\* held until the frame is unwound) or after it, in the fallback.
Unwinding(t) ==
    {k \in 1..Len(stack[t]) :
        /\ ~stack[t][k].nested
        /\ stack[t][k].res # "borrow"
        /\ stack[t][k].pc = "panicked"}

\* C30 (exclusive use of the thread-local formatter): on each thread at most
\* one on_event call is inside the closure of with_borrow_mut or unwinding
\* from it; the formatter is borrowed whenever a call is inside the closure
\* and only while such a call is active, and the flag is set all the time
\* the formatter is borrowed; every call made above the holder of the
\* borrow, at any depth, found the flag set, and so formats into a buffer of
\* its own and leaves flag and borrow alone; and no call has found the
\* formatter already borrowed.
C30_ExclusiveFormatter ==
    \A t \in Threads :
        /\ Cardinality(InClosure(t) \cup Unwinding(t)) <= 1
        /\ InClosure(t) # {} => borrowed[t]
        /\ \A k \in Unwinding(t) : stack[t][k].hook \/ k < Len(stack[t]) => borrowed[t]
        /\ borrowed[t] => InClosure(t) \cup Unwinding(t) # {}
        /\ borrowed[t] => guard[t]
        /\ \A k \in InClosure(t) \cup Unwinding(t) : \A j \in (k + 1)..Len(stack[t]) :
              stack[t][j].nested
        /\ \A k \in 1..Len(stack[t]) : stack[t][k].res # "borrow"

\* Reached: three on_event calls are active on thread 1; the outermost holds
\* the borrow, the two above it are nested, the innermost has formatted its
\* line into its own buffer, and the flag is set.
C30_Witness ==
    /\ Len(stack[1]) = 3
    /\ InClosure(1) \cup Unwinding(1) = {1}
    /\ stack[1][2].nested /\ stack[1][3].nested
    /\ stack[1][3].pc = "write"
    /\ borrowed[1] /\ guard[1]
====
